---- MODULE Spec2Model ----
(***************************************************************************)
(* Model of redisConnections/redisConnection.py (class RedisConnection):   *)
(* the module partition of the key-value store, the merge of incoming      *)
(* module records into stored ones, the flat aggregate 'modules-data',     *)
(* the derivation of module and implementation keys, the targeted          *)
(* deletions, and the vendor partition with its tree 'vendors-data'.       *)
(*                                                                         *)
(* Representation.  A string is a sequence of one-character strings, so    *)
(* that formatting, replacing and splitting are computed character by      *)
(* character.  A dict is a function whose domain is the set of its keys    *)
(* (the order of keys in a JSON object is not modelled).  A list is a      *)
(* sequence.  Python's None / JSON null is the value NULL.                 *)
(***************************************************************************)
EXTENDS Integers, Sequences, FiniteSets, TLC

VARIABLES
    modulesDB,  \* self.modulesDB: key -> stored JSON value
    vendorsDB,  \* self.vendorsDB: key -> stored JSON value
    op,         \* name of the last operation that ran ("init" at start)
    arg,        \* the argument of the last operation
    prev,       \* the partition the last operation worked on, as it was before
    result,     \* how the last operation ended: Returned(v) or Raised(e)
    fault,      \* the store failure the last operation met, NoFault when none
    inflight,   \* the calls that run concurrently, each with its locals
    nOps        \* number of calls counted so far (SpecMerge, SpecKeys)

vars == <<modulesDB, vendorsDB, op, arg, prev, result, fault, inflight, nOps>>

(***************************************************************************)
(* Bounds of the model.                                                    *)
(***************************************************************************)
MaxList == 2     \* longest list carried by an incoming record
MaxMerges == 2   \* populate_modules calls in a behaviour of SpecMerge
MaxBatch == 2    \* longest batch handed to populate_modules in Spec
MaxKeys == 1     \* longest key list handed to delete_modules in Spec
MaxSegLen == 1   \* longest segment string of a key in SpecKeys
MaxVendors == 1  \* longest list of vendors handed to populate_implementation

(***************************************************************************)
(* Python / JSON values.                                                   *)
(***************************************************************************)
\* None.  A one-element sequence whose element is not a character, so it
\* compares with (and differs from) every string.
NULL == <<"None">>

\* dict.get(key): None when the key is absent.
Get(d, key) == IF key \in DOMAIN d THEN d[key] ELSE NULL

\* dict.get(key, default)
GetOr(d, key, default) == IF key \in DOMAIN d THEN d[key] ELSE default

\* '{}'.format(v): str(None) is 'None', a string is itself.
Format(v) == IF v = NULL THEN <<"N", "o", "n", "e">> ELSE v

\* str.replace(a, b) for one-character a and b.
Replace(s, a, b) == [i \in 1..Len(s) |-> IF s[i] = a THEN b ELSE s[i]]

\* a in s, for a one-character a.
Contains(s, a) == \E i \in 1..Len(s) : s[i] = a

\* All sequences over S of length lo..hi.
SeqsOf(S, lo, hi) == UNION {[1..n -> S] : n \in lo..hi}

\* d with d[key] set to v (key added when absent).
Put(d, key, v) == [k \in DOMAIN d \cup {key} |-> IF k = key THEN v ELSE d[k]]

\* the empty dict {}
EmptyDict == [k \in {} |-> NULL]

\* No store call of the operation failed.
NoFault == [step |-> 0, kind |-> "none"]

\* The calls that can be in flight at once, and a call that has not started.
Processes == {"p1", "p2"}
Idle == [call |-> "none", pc |-> "idle", new_module |-> EmptyDict,
         redis_module |-> EmptyDict, keys |-> {}, modules_data |-> EmptyDict,
         before |-> EmptyDict, landed |-> 0,
         batch |-> <<>>, turn |-> 0, frames |-> 0, pending |-> EmptyDict,
         gone |-> {}]

\* The two ways a call ends.
Returned(v) == [error |-> "none", value |-> v]
Raised(e) == [error |-> e, value |-> NULL]

\* str.split(sep) for a one-character sep: the pieces between the
\* separators, empty pieces included.
RECURSIVE Split(_, _)
Split(s, sep) ==
    IF ~Contains(s, sep) THEN <<s>>
    ELSE LET i == CHOOSE n \in 1..Len(s) :
                      s[n] = sep /\ \A m \in 1..(n - 1) : s[m] # sep
         IN  <<SubSeq(s, 1, i - 1)>> \o Split(SubSeq(s, i + 1, Len(s)), sep)

(***************************************************************************)
(* Key derivation.                                                         *)
(***************************************************************************)
ModulesDataKey == <<"m", "o", "d", "u", "l", "e", "s", "-", "d", "a", "t", "a">>

create_module_key(module) ==
    Format(Get(module, "name")) \o <<"@">> \o Format(Get(module, "revision"))
        \o <<"/">> \o Format(Get(module, "organization"))

create_implementation_key(impl) ==
    Replace(impl["vendor"], " ", "#") \o <<"/">>
        \o Replace(impl["platform"], " ", "#") \o <<"/">>
        \o Replace(impl["software-version"], " ", "#") \o <<"/">>
        \o Replace(impl["software-flavor"], " ", "#")

(***************************************************************************)
(* update_module_properties                                                *)
(***************************************************************************)
\* A variant in which an incoming implementation of a known key replaces
\* the stored one.
RECURSIVE MergeImplementations_IncomingWins(_, _)
MergeImplementations_IncomingWins(existing_impls, new_impls) ==
    IF new_impls = <<>> THEN existing_impls
    ELSE LET new_impl == Head(new_impls)
             new_impl_name == create_implementation_key(new_impl)
             same == {i \in 1..Len(existing_impls) :
                         create_implementation_key(existing_impls[i]) = new_impl_name}
         IN  MergeImplementations_IncomingWins(
                 IF same # {}
                 THEN [i \in 1..Len(existing_impls) |->
                          IF i \in same THEN new_impl ELSE existing_impls[i]]
                 ELSE Append(existing_impls, new_impl),
                 Tail(new_impls))

\* lines 49-54: append every incoming implementation whose key is not yet
\* among the names of the existing list.
RECURSIVE MergeImplementations(_, _)
MergeImplementations(existing_impls, new_impls) ==
    IF new_impls = <<>> THEN existing_impls
    ELSE LET new_impl == Head(new_impls)
             new_impl_name == create_implementation_key(new_impl)
             known == \E i \in 1..Len(existing_impls) :
                          create_implementation_key(existing_impls[i]) = new_impl_name
         IN  MergeImplementations(
                 IF known THEN existing_impls ELSE Append(existing_impls, new_impl),
                 Tail(new_impls))

\* A variant that finds the last position of the name.
IndexOfName_Last(prop_list, name) ==
    CHOOSE i \in 1..Len(prop_list) :
        /\ Get(prop_list[i], "name") = name
        /\ \A j \in (i + 1)..Len(prop_list) : Get(prop_list[j], "name") # name

\* list.index(name) over the names of the list: the first position.
IndexOfName(prop_list, name) ==
    CHOOSE i \in 1..Len(prop_list) :
        /\ Get(prop_list[i], "name") = name
        /\ \A j \in 1..(i - 1) : Get(prop_list[j], "name") # name

\* A variant in which a stored property is kept when an incoming one has
\* its name, as for implementations.
RECURSIVE MergeProperties_ExistingWins(_, _)
MergeProperties_ExistingWins(existing_prop_list, new_prop_list) ==
    IF new_prop_list = <<>> THEN existing_prop_list
    ELSE LET new_prop == Head(new_prop_list)
             known == \E i \in 1..Len(existing_prop_list) :
                          Get(existing_prop_list[i], "name") = Get(new_prop, "name")
         IN  MergeProperties_ExistingWins(
                 IF known THEN existing_prop_list
                 ELSE Append(existing_prop_list, new_prop),
                 Tail(new_prop_list))

\* lines 61-69: an incoming property with a new name is appended, one with
\* a known name replaces the entry at the first position of that name.
RECURSIVE MergeProperties(_, _)
MergeProperties(existing_prop_list, new_prop_list) ==
    IF new_prop_list = <<>> THEN existing_prop_list
    ELSE LET new_prop == Head(new_prop_list)
             new_prop_name == Get(new_prop, "name")
             known == \E i \in 1..Len(existing_prop_list) :
                          Get(existing_prop_list[i], "name") = new_prop_name
         IN  MergeProperties(
                 IF known
                 THEN [existing_prop_list EXCEPT
                          ![IndexOfName(existing_prop_list, new_prop_name)] = new_prop]
                 ELSE Append(existing_prop_list, new_prop),
                 Tail(new_prop_list))

\* lines 46-54, one key 'implementations'.  The list that is extended is the
\* one inside existing_module when it has one; otherwise it is a fresh []
\* that is never attached to existing_module.
UpdateImplementations(new_module, existing_module) ==
    LET new_impls == GetOr(GetOr(new_module, "implementations", EmptyDict),
                           "implementation", <<>>)
    IN  IF /\ "implementations" \in DOMAIN existing_module
           /\ "implementation" \in DOMAIN existing_module["implementations"]
        THEN [existing_module EXCEPT !["implementations"] =
                 [@ EXCEPT !["implementation"] = MergeImplementations(@, new_impls)]]
        ELSE existing_module

\* lines 55-69, one key of 'dependents', 'dependencies'.
UpdateProperties(key, new_module, existing_module) ==
    LET new_prop_list == GetOr(new_module, key, <<>>)
        existing_prop_list == GetOr(existing_module, key, <<>>)
    IN  IF existing_prop_list = <<>>
        THEN Put(existing_module, key, new_prop_list)
        ELSE Put(existing_module, key, MergeProperties(existing_prop_list, new_prop_list))

\* A variant without the test 'new_value is not None'.
UpdateValue_NoneOverwrites(key, new_module, existing_module) ==
    LET new_value == Get(new_module, key)
        existing_value == Get(existing_module, key)
    IN  IF existing_value # new_value
        THEN Put(existing_module, key, new_value)
        ELSE existing_module

\* A variant in which the stored value is never overwritten.
UpdateValue_KeepsExisting(key, new_module, existing_module) ==
    LET new_value == Get(new_module, key)
        existing_value == Get(existing_module, key)
    IN  IF existing_value = NULL /\ new_value # NULL
        THEN Put(existing_module, key, new_value)
        ELSE existing_module

\* lines 70-74, any other key.
UpdateValue(key, new_module, existing_module) ==
    LET new_value == Get(new_module, key)
        existing_value == Get(existing_module, key)
    IN  IF existing_value # new_value /\ new_value # NULL
        THEN Put(existing_module, key, new_value)
        ELSE existing_module

UpdateKey(key, new_module, existing_module) ==
    IF key = "implementations" THEN UpdateImplementations(new_module, existing_module)
    ELSE IF key \in {"dependents", "dependencies"}
         THEN UpdateProperties(key, new_module, existing_module)
         ELSE UpdateValue(key, new_module, existing_module)

\* The loop of lines 45-74 over the keys of either record.  Each pass reads
\* and writes only its own key, so the order of the passes does not matter.
RECURSIVE UpdateKeys(_, _, _)
UpdateKeys(keys, new_module, existing_module) ==
    IF keys = {} THEN existing_module
    ELSE LET key == CHOOSE k \in keys : TRUE
         IN  UpdateKeys(keys \ {key}, new_module,
                        UpdateKey(key, new_module, existing_module))

update_module_properties(new_module, existing_module) ==
    UpdateKeys(DOMAIN new_module \cup DOMAIN existing_module, new_module, existing_module)

(***************************************************************************)
(* The module partition.                                                   *)
(***************************************************************************)
\* get_module: the stored value, '{}' when the key is absent.
get_module(db, key) == IF key \in DOMAIN db THEN db[key] ELSE EmptyDict

\* set_redis_module: SET key value.
set_redis_module(db, module, redis_key) == Put(db, redis_key, module)

\* lines 88-95, one record of the batch.
PopulateOne(db, new_module) ==
    LET redis_key == create_module_key(new_module)
        redis_module == get_module(db, redis_key)
        updated_module == IF DOMAIN redis_module = {}
                          THEN new_module
                          ELSE update_module_properties(new_module, redis_module)
    IN  set_redis_module(db, updated_module, redis_key)

\* A variant in which every record of the batch is merged into the value
\* its key held before the batch.
PopulateAll_OntoPreBatch(db, new_modules) ==
    LET keys == {create_module_key(new_modules[i]) : i \in 1..Len(new_modules)}
        LastOf(key) ==
            new_modules[CHOOSE i \in 1..Len(new_modules) :
                           /\ create_module_key(new_modules[i]) = key
                           /\ \A j \in (i + 1)..Len(new_modules) :
                                 create_module_key(new_modules[j]) # key]
    IN  [key \in DOMAIN db \cup keys |->
            IF key \in keys THEN PopulateOne(db, LastOf(key))[key] ELSE db[key]]

\* lines 87-96: the records of the batch in order, each merged into the
\* store the records before it left.
RECURSIVE PopulateAll(_, _)
PopulateAll(db, new_modules) ==
    IF new_modules = <<>> THEN db
    ELSE PopulateAll(PopulateOne(db, Head(new_modules)), Tail(new_modules))

\* A variant that merges the record into the value stored at the time of
\* the SET, not into the value that was read.
StoreMerged_Rereads(db, new_module, redis_module) == PopulateOne(db, new_module)

\* lines 90-95: the record merged into the value that was read at line 89,
\* and stored.
StoreMerged(db, new_module, redis_module) ==
    LET redis_key == create_module_key(new_module)
        updated_module == IF DOMAIN redis_module = {}
                          THEN new_module
                          ELSE update_module_properties(new_module, redis_module)
    IN  set_redis_module(db, updated_module, redis_key)

\* A variant of one step of the scan that does not skip 'modules-data'.
ScanOne_WithAggregate(db, modules_data, redis_key) ==
    IF ~Contains(redis_key, ":")
    THEN Put(modules_data, redis_key, get_module(db, redis_key))
    ELSE modules_data

\* lines 118-120: one key of the scan of reload_modules_cache
ScanOne(db, modules_data, redis_key) ==
    IF redis_key # ModulesDataKey /\ ~Contains(redis_key, ":")
    THEN Put(modules_data, redis_key, get_module(db, redis_key))
    ELSE modules_data

\* A variant that undoes the records already stored when the store fails.
populate_modules_failing_RollsBack(db, new_modules, step, kind) ==
    IF kind = "raises"
    THEN [db |-> db, result |-> Raised("ConnectionError")]
    ELSE [db |-> PopulateAll(PopulateAll(db, SubSeq(new_modules, 1, step - 1)),
                             SubSeq(new_modules, step + 1, Len(new_modules))),
          result |-> Returned(NULL)]

\* lines 87-96 when the store fails at record number step.  When a store
\* call raises, nothing catches the exception: the loop ends there, with
\* the records before it stored.  When the SET reports an unsuccessful
\* result, set_redis_module logs it and returns it (lines 108-113),
\* populate_modules drops it (line 95) and goes on with the next record.
populate_modules_failing(db, new_modules, step, kind) ==
    IF kind = "raises"
    THEN [db |-> PopulateAll(db, SubSeq(new_modules, 1, step - 1)),
          result |-> Raised("ConnectionError")]
    ELSE [db |-> PopulateAll(PopulateAll(db, SubSeq(new_modules, 1, step - 1)),
                             SubSeq(new_modules, step + 1, Len(new_modules))),
          result |-> Returned(NULL)]

\* A variant of the scan that does not skip 'modules-data'.
ScannedModules_WithAggregate(db) ==
    [redis_key \in {key \in DOMAIN db : ~Contains(key, ":")} |-> get_module(db, redis_key)]

\* A variant of the scan that does not skip the keys with a ':'.
ScannedModules_WithColonKeys(db) ==
    [redis_key \in DOMAIN db \ {ModulesDataKey} |-> get_module(db, redis_key)]

\* lines 116-120: the scan of reload_modules_cache.  Every key of the
\* partition but 'modules-data' and the keys with a ':' is read.
ScannedModules(db) ==
    [redis_key \in {key \in DOMAIN db :
                       key # ModulesDataKey /\ ~Contains(key, ":")}
        |-> get_module(db, redis_key)]

\* lines 115-123
reload_modules_cache(db) == set_redis_module(db, ScannedModules(db), ModulesDataKey)

\* lines 125-127: DEL key [key ...] removes the keys that exist.
delete_modules(db, modules_keys) ==
    [key \in DOMAIN db \ {modules_keys[i] : i \in 1..Len(modules_keys)} |-> db[key]]

\* DEL returns the number of keys it removed.
DeletedCount(db, modules_keys) ==
    Cardinality(DOMAIN db \cap {modules_keys[i] : i \in 1..Len(modules_keys)})

\* line 126: the reply of the DEL.  The server rejects a DEL that names no
\* key, and the client raises ResponseError.
DelResult(db, modules_keys) ==
    IF modules_keys = <<>> THEN Raised("ResponseError")
    ELSE Returned(DeletedCount(db, modules_keys))

\* list.remove(x): the list without its first element equal to x.
RECURSIVE Remove(_, _)
Remove(list, x) ==
    IF list = <<>> THEN list
    ELSE IF Head(list) = x THEN Tail(list)
    ELSE <<Head(list)>> \o Remove(Tail(list), x)

\* dict.pop(key, None)
Pop(d, key) == [k \in DOMAIN d \ {key} |-> d[k]]

Min(S) == CHOOSE i \in S : \A j \in S : i <= j
Max(S) == CHOOSE i \in S : \A j \in S : j <= i

\* A variant that removes the last dependent of the name.
delete_dependent_LastOfName(db, redis_key, dependent_name) ==
    LET redis_module == get_module(db, redis_key)
        dependents_list == GetOr(redis_module, "dependents", <<>>)
        hits == {i \in 1..Len(dependents_list) :
                    Get(dependents_list[i], "name") = dependent_name}
    IN  IF hits = {} THEN [db |-> db, result |-> FALSE]
        ELSE [db |-> set_redis_module(db,
                        Put(redis_module, "dependents",
                            [i \in 1..(Len(dependents_list) - 1) |->
                                IF i < Max(hits) THEN dependents_list[i]
                                ELSE dependents_list[i + 1]]),
                        redis_key),
              result |-> TRUE]

\* lines 129-143: the store after the call and the value returned.  The loop
\* stops at the first dependent of the name; list.remove takes out the first
\* element equal to it; the record is stored only when one was found.
delete_dependent(db, redis_key, dependent_name) ==
    LET redis_module == get_module(db, redis_key)
        dependents_list == GetOr(redis_module, "dependents", <<>>)
        hits == {i \in 1..Len(dependents_list) :
                    Get(dependents_list[i], "name") = dependent_name}
    IN  IF hits = {} THEN [db |-> db, result |-> FALSE]
        ELSE [db |-> set_redis_module(db,
                        Put(redis_module, "dependents",
                            Remove(dependents_list, dependents_list[Min(hits)])),
                        redis_key),
              result |-> TRUE]

\* line 146
impl_param_names == <<"vendor", "platform", "software-version", "software-flavor">>

\* lines 152-153: ','.join of the four names of a reference
ImplKey(impl) ==
    impl[impl_param_names[1]] \o <<",">> \o impl[impl_param_names[2]] \o <<",">>
        \o impl[impl_param_names[3]] \o <<",">> \o impl[impl_param_names[4]]

\* A variant that stores the record whether or not a reference was found.
delete_implementation_AlwaysStores(db, redis_key, implemntation_key) ==
    LET redis_module == get_module(db, redis_key)
        implementations == GetOr(GetOr(redis_module, "implementations", EmptyDict),
                                 "implementation", <<>>)
        hits == {i \in 1..Len(implementations) :
                    ImplKey(implementations[i]) = implemntation_key}
    IN  IF hits = {}
        THEN [db |-> set_redis_module(db, redis_module, redis_key), result |-> FALSE]
        ELSE [db |-> set_redis_module(db,
                        Put(redis_module, "implementations",
                            Put(redis_module["implementations"], "implementation",
                                Remove(implementations, implementations[Min(hits)]))),
                        redis_key),
              result |-> TRUE]

\* lines 145-159: the store after the call and the value returned.  The
\* first reference whose four names joined by ',' equal the key is removed
\* and the record stored; nothing is stored when there is none.
delete_implementation(db, redis_key, implemntation_key) ==
    LET redis_module == get_module(db, redis_key)
        implementations == GetOr(GetOr(redis_module, "implementations", EmptyDict),
                                 "implementation", <<>>)
        hits == {i \in 1..Len(implementations) :
                    ImplKey(implementations[i]) = implemntation_key}
    IN  IF hits = {} THEN [db |-> db, result |-> FALSE]
        ELSE [db |-> set_redis_module(db,
                        Put(redis_module, "implementations",
                            Put(redis_module["implementations"], "implementation",
                                Remove(implementations, implementations[Min(hits)]))),
                        redis_key),
              result |-> TRUE]

\* A variant that stores the record it was given instead of the stored one.
delete_expires_StoresArgument(db, module) ==
    [db |-> set_redis_module(db, Pop(module, "expires"), create_module_key(module)),
     result |-> TRUE]

\* lines 161-169: the stored record (or '{}') without 'expires' is stored
\* under the key of the module, whatever was read.
delete_expires(db, module) ==
    LET redis_key == create_module_key(module)
        redis_module == get_module(db, redis_key)
    IN  [db |-> set_redis_module(db, Pop(redis_module, "expires"), redis_key),
         result |-> TRUE]

\* line 234 of create_vendors_data_dict: the key is decoded into its four
\* names; unpacking any other number of pieces raises ValueError.
DecodeVendorKey(key) ==
    LET names == Split(Replace(key, "#", " "), "/")
    IN  IF Len(names) = 4 THEN Returned(names) ELSE Raised("ValueError")

(***************************************************************************)
(* The vendor partition.                                                   *)
(***************************************************************************)
VendorsDataKey == <<"v", "e", "n", "d", "o", "r", "s", "-", "d", "a", "t", "a">>

\* t in s, for strings t and s ('' is in every string).
IsSubstring(t, s) ==
    \E i \in 0..(Len(s) - Len(t)) : SubSeq(s, i + 1, i + Len(t)) = t

RECURSIVE Concat(_)
Concat(lists) == IF lists = <<>> THEN <<>> ELSE Head(lists) \o Concat(Tail(lists))

\* A variant in which a key that is there already keeps its value.
RECURSIVE OrderedUpdate_KeepsFirst(_, _)
OrderedUpdate_KeepsFirst(entries, pairs) ==
    IF pairs = <<>> THEN entries
    ELSE LET pair == Head(pairs)
             at == {i \in 1..Len(entries) : entries[i].key = pair.key}
         IN  OrderedUpdate_KeepsFirst(IF at = {} THEN Append(entries, pair) ELSE entries,
                                      Tail(pairs))

\* A dict built entry by entry and read back with list(d.values()): a
\* sequence of [key, value], one per key, at the position where the key
\* first came and with the value that came last.
RECURSIVE OrderedUpdate(_, _)
OrderedUpdate(entries, pairs) ==
    IF pairs = <<>> THEN entries
    ELSE LET pair == Head(pairs)
             at == {i \in 1..Len(entries) : entries[i].key = pair.key}
         IN  OrderedUpdate(IF at = {} THEN Append(entries, pair)
                           ELSE [i \in 1..Len(entries) |->
                                    IF i \in at THEN pair ELSE entries[i]],
                           Tail(pairs))

\* lines 261-262: {self._create_module_key(module): module for module in list}
ByModuleKey(data_list) ==
    OrderedUpdate(<<>>, [i \in 1..Len(data_list) |->
                           [key |-> create_module_key(data_list[i]), value |-> data_list[i]]])

\* lines 266-267: {value['name']: value for value in list}
ByName(data_list) ==
    OrderedUpdate(<<>>, [i \in 1..Len(data_list) |->
                           [key |-> data_list[i]["name"], value |-> data_list[i]]])

\* list(d.values())
Values(entries) == [i \in 1..Len(entries) |-> entries[i].value]

\* next(iter(d.items())) of a dict of the shape {<some string>: [...]}
FirstKey(d) == CHOOSE k \in DOMAIN d : DOMAIN d = {k}

\* line 273, isinstance(value, dict): of the fields of a node of the tree,
\* 'name' and 'label' hold strings and every other one a dict.
StringFields == {"name", "label"}
IsDictField(key) == key \notin StringFields

RECURSIVE merge_data(_, _)
RECURSIVE MergeNamed(_, _)

\* lines 271-276: the fields of an old node that the new node has too are
\* merged one level deeper (dicts) or taken from the new node.
MergeNode(old_node, new_node) ==
    [key \in DOMAIN old_node |->
        IF key \in DOMAIN new_node
        THEN IF IsDictField(key) THEN merge_data(old_node[key], new_node[key])
             ELSE new_node[key]
        ELSE old_node[key]]

\* lines 268-278: every new node is merged into the old node of its name,
\* or added when there is none.
MergeNamed(old_data, new_data) ==
    IF new_data = <<>> THEN old_data
    ELSE LET new_entry == Head(new_data)
             at == {i \in 1..Len(old_data) : old_data[i].key = new_entry.key}
         IN  MergeNamed(IF at = {} THEN Append(old_data, new_entry)
                        ELSE [i \in 1..Len(old_data) |->
                                 IF i \in at
                                 THEN [key |-> new_entry.key,
                                       value |-> MergeNode(old_data[i].value, new_entry.value)]
                                 ELSE old_data[i]],
                        Tail(new_data))

\* lines 256-279: old after the call.  The list of old is read under old's
\* key, data_type is the key of new, and the merged list is stored in old
\* under data_type.
merge_data(old, new) ==
    LET old_data_list == old[FirstKey(old)]
        data_type == FirstKey(new)
        new_data_list == new[data_type]
    IN  IF data_type = "module"
        THEN Put(old, "module",
                 Values(OrderedUpdate(ByModuleKey(old_data_list), ByModuleKey(new_data_list))))
        ELSE Put(old, data_type,
                 Values(MergeNamed(ByName(old_data_list), ByName(new_data_list))))

\* A variant of a for loop that never moves on to the next element.
Rest_Repeats(list) == list

\* for x in list: what is left of the list after one turn of the loop
Rest(list) == Tail(list)

\* The number of calls of merge_data that merge_data(old, new) makes, itself
\* included: line 274 calls it again for every object field that two nodes
\* of one name share.
RECURSIVE MergeCalls(_, _)
MergeCalls(old, new) ==
    LET data_type == FirstKey(new)
        old_data == ByName(old[FirstKey(old)])
        new_data == ByName(new[data_type])
        shared == {<<i, j, key>> \in (1..Len(old_data)) \X (1..Len(new_data))
                                       \X {"platforms", "software-versions",
                                           "software-flavors", "protocols", "modules"} :
                      /\ old_data[i].key = new_data[j].key
                      /\ key \in DOMAIN old_data[i].value
                      /\ key \in DOMAIN new_data[j].value}
        SumOver[S \in SUBSET shared] ==
            IF S = {} THEN 0
            ELSE LET t == CHOOSE t \in S : TRUE
                 IN  MergeCalls(old_data[t[1]].value[t[3]], new_data[t[2]].value[t[3]])
                        + SumOver[S \ {t}]
    IN  IF data_type = "module" THEN 1 ELSE 1 + SumOver[shared]

\* get_implementation: the stored value, '{}' when the key is absent.
get_implementation(db, key) == IF key \in DOMAIN db THEN db[key] ELSE EmptyDict

\* lines 200-204: the software flavors of one software version in loop
\* order, each with the key built from the four names.
FlavorsOfVersion(vendor_name, platform_name, software_version) ==
    LET software_version_name == Replace(software_version["name"], " ", "#")
        flavors == software_version["software-flavors"]["software-flavor"]
    IN  [i \in 1..Len(flavors) |->
            [key |-> vendor_name \o <<"/">> \o platform_name \o <<"/">>
                        \o software_version_name \o <<"/">>
                        \o Replace(flavors[i]["name"], " ", "#"),
             software_flavor |-> flavors[i]]]

\* lines 198-200
FlavorsOfPlatform(vendor_name, platform) ==
    LET platform_name == Replace(platform["name"], " ", "#")
        versions == platform["software-versions"]["software-version"]
    IN  Concat([i \in 1..Len(versions) |->
                   FlavorsOfVersion(vendor_name, platform_name, versions[i])])

\* lines 196-198
FlavorsOfVendor(implementation) ==
    LET vendor_name == Replace(implementation["name"], " ", "#")
        platforms == implementation["platforms"]["platform"]
    IN  Concat([i \in 1..Len(platforms) |-> FlavorsOfPlatform(vendor_name, platforms[i])])

\* lines 205-209: data after the software flavors met so far.  The first
\* flavor of a key gives its protocols; the modules of all of them are
\* concatenated.
RECURSIVE CollectData(_, _)
CollectData(data, flavors) ==
    IF flavors = <<>> THEN data
    ELSE LET key == Head(flavors).key
             software_flavor == Head(flavors).software_flavor
             started == IF key \in DOMAIN data THEN data[key]
                        ELSE [protocols |-> GetOr(software_flavor, "protocols", EmptyDict),
                              modules |-> [module |-> <<>>]]
             more == GetOr(GetOr(software_flavor, "modules", EmptyDict), "module", <<>>)
         IN  CollectData(Put(data, key,
                             Put(started, "modules",
                                 [module |-> started["modules"]["module"] \o more])),
                         Tail(flavors))

\* A variant that stores the protocols of the call over the stored ones.
MergedImplementation_TakesProtocols(db, key, new_data) ==
    LET existing_data == get_implementation(db, key)
    IN  IF DOMAIN existing_data = {} THEN new_data
        ELSE Put(Put(existing_data, "modules",
                     merge_data(existing_data["modules"], new_data["modules"])),
                 "protocols", new_data["protocols"])

\* lines 212-219: the value stored under one key
MergedImplementation(db, key, new_data) ==
    LET existing_data == get_implementation(db, key)
    IN  IF DOMAIN existing_data = {} THEN new_data
        ELSE Put(existing_data, "modules",
                 merge_data(existing_data["modules"], new_data["modules"]))

\* lines 187-219: the partition after the call
populate_implementation(db, new_implemenetation) ==
    LET data == CollectData(EmptyDict,
                    Concat([i \in 1..Len(new_implemenetation) |->
                               FlavorsOfVendor(new_implemenetation[i])]))
    IN  [key \in DOMAIN db \cup DOMAIN data |->
            IF key \in DOMAIN data THEN MergedImplementation(db, key, data[key])
            ELSE db[key]]

\* d.get(level).get(item) iterated by a for loop: None has no get
\* (AttributeError), and None is not iterable (TypeError).
LevelError(d, level, item) ==
    IF level \notin DOMAIN d THEN "AttributeError"
    ELSE IF item \notin DOMAIN d[level] THEN "TypeError"
    ELSE "none"

\* d.get('name').replace(' ', '#'): None has no replace.
NameError(d) == IF "name" \in DOMAIN d THEN "none" ELSE "AttributeError"

\* the first error of a sequence of outcomes, 'none' when there is none
RECURSIVE FirstError(_)
FirstError(errors) ==
    IF errors = <<>> THEN "none"
    ELSE IF Head(errors) # "none" THEN Head(errors)
    ELSE FirstError(Tail(errors))

\* lines 200-203: how the expansion of one software version ends
ErrorOfVersion(software_version) ==
    LET level == LevelError(software_version, "software-flavors", "software-flavor")
    IN  FirstError(<<NameError(software_version), level>> \o
            (IF level # "none" THEN <<>>
             ELSE LET flavors == software_version["software-flavors"]["software-flavor"]
                  IN  [i \in 1..Len(flavors) |-> NameError(flavors[i])]))

\* lines 198-203: how the expansion of one platform ends
ErrorOfPlatform(platform) ==
    LET level == LevelError(platform, "software-versions", "software-version")
    IN  FirstError(<<NameError(platform), level>> \o
            (IF level # "none" THEN <<>>
             ELSE LET versions == platform["software-versions"]["software-version"]
                  IN  [i \in 1..Len(versions) |-> ErrorOfVersion(versions[i])]))

\* lines 196-203: how the expansion of one vendor block ends
ErrorOfVendor(implementation) ==
    LET level == LevelError(implementation, "platforms", "platform")
    IN  FirstError(<<NameError(implementation), level>> \o
            (IF level # "none" THEN <<>>
             ELSE LET platforms == implementation["platforms"]["platform"]
                  IN  [i \in 1..Len(platforms) |-> ErrorOfPlatform(platforms[i])]))

\* lines 195-209: how the first loop of populate_implementation ends
ExpandError(new_implemenetation) ==
    FirstError([i \in 1..Len(new_implemenetation) |-> ErrorOfVendor(new_implemenetation[i])])

IsSoundPlatform(platform) == ErrorOfPlatform(platform) = "none"

\* the platforms of a block that expand, the block without the others
SoundPart(implementation) ==
    IF NameError(implementation) # "none"
         \/ LevelError(implementation, "platforms", "platform") # "none"
    THEN Put(Put(implementation, "name", <<>>), "platforms", [platform |-> <<>>])
    ELSE Put(implementation, "platforms",
             [platform |-> SelectSeq(implementation["platforms"]["platform"],
                                     IsSoundPlatform)])

\* A variant that stores what it has expanded although the expansion
\* failed.
populate_implementation_call_StoresExpanded(db, new_implemenetation) ==
    IF ExpandError(new_implemenetation) # "none"
    THEN [db |-> populate_implementation(db,
                     [i \in 1..Len(new_implemenetation) |->
                         SoundPart(new_implemenetation[i])]),
          result |-> Raised(ExpandError(new_implemenetation))]
    ELSE [db |-> populate_implementation(db, new_implemenetation),
          result |-> Returned(NULL)]

\* lines 187-219 for any blocks: the partition after the call and how the
\* call ended.  The first loop (195-209) only builds data; an error in it
\* reaches the caller before the second loop (211-219) has read or written
\* a key.
populate_implementation_call(db, new_implemenetation) ==
    IF ExpandError(new_implemenetation) # "none"
    THEN [db |-> db, result |-> Raised(ExpandError(new_implemenetation))]
    ELSE [db |-> populate_implementation(db, new_implemenetation),
          result |-> Returned(NULL)]

\* line 236: {'name': software_flavor_name, **redis_vendor_data}
WithName(name, redis_vendor_data) ==
    [k \in DOMAIN redis_vendor_data \cup {"name"} |->
        IF k \in DOMAIN redis_vendor_data THEN redis_vendor_data[k] ELSE name]

\* lines 236-240: the tree of one key
VendorTree(names, redis_vendor_data) ==
    LET software_flavor == WithName(names[4], redis_vendor_data)
        software_version ==
            [name |-> names[3]] @@
            ("software-flavors" :> ("software-flavor" :> <<software_flavor>>))
        platform ==
            [name |-> names[2]] @@
            ("software-versions" :> ("software-version" :> <<software_version>>))
    IN  [name |-> names[1], platforms |-> [platform |-> <<platform>>]]

\* lines 228-242: the keys as the scan yields them (order), each that is
\* not 'vendors-data' and contains searched_key decoded and merged into
\* vendors_data; a key that does not decode into four names ends the call
\* with ValueError.
RECURSIVE ScanVendors(_, _, _, _)
ScanVendors(db, searched_key, order, vendors_data) ==
    IF order = <<>> THEN Returned(vendors_data["yang-catalog:vendor"])
    ELSE LET key == Head(order)
             decoded == DecodeVendorKey(key)
         IN  IF key = VendorsDataKey \/ ~IsSubstring(searched_key, key)
             THEN ScanVendors(db, searched_key, Tail(order), vendors_data)
             ELSE IF decoded.error # "none" THEN decoded
             ELSE ScanVendors(db, searched_key, Tail(order),
                      merge_data(vendors_data,
                                 "yang-catalog:vendor" :>
                                     <<VendorTree(decoded.value,
                                                  get_implementation(db, key))>>))

\* lines 226-242
create_vendors_data_dict(db, searched_key, order) ==
    ScanVendors(db, searched_key, order, "yang-catalog:vendor" :> <<>>)

\* The orders in which a scan can yield the keys of a partition.
ScanOrders(db) ==
    {order \in [1..Cardinality(DOMAIN db) -> DOMAIN db] :
        \A i, j \in DOMAIN order : order[i] = order[j] => i = j}

\* A variant that catches the decode failure and stores an empty tree.
reload_vendors_cache_SwallowsError(db, order) ==
    LET vendors_data == create_vendors_data_dict(db, "", order)
    IN  [db |-> Put(db, VendorsDataKey,
                    [vendor |-> IF vendors_data.error # "none" THEN <<>>
                                ELSE vendors_data.value]),
         result |-> Returned(NULL)]

\* lines 221-224: the partition after the call, and how the call ended
reload_vendors_cache(db, order) ==
    LET vendors_data == create_vendors_data_dict(db, "", order)
    IN  IF vendors_data.error # "none" THEN [db |-> db, result |-> vendors_data]
        ELSE [db |-> Put(db, VendorsDataKey, [vendor |-> vendors_data.value]),
              result |-> Returned(NULL)]

\* A variant that collects only the keys that start with the fragment.
delete_vendor_PrefixOnly(db, vendor_key) ==
    LET keys_to_delete == {redis_key \in DOMAIN db :
                              /\ Len(vendor_key) <= Len(redis_key)
                              /\ SubSeq(redis_key, 1, Len(vendor_key)) = vendor_key}
    IN  [db |-> [key \in DOMAIN db \ keys_to_delete |-> db[key]],
         result |-> Cardinality(keys_to_delete)]

\* lines 244-254: every key that contains vendor_key is deleted; the
\* number of keys deleted is returned, 0 when there was none to delete.
delete_vendor(db, vendor_key) ==
    LET keys_to_delete == {redis_key \in DOMAIN db : IsSubstring(vendor_key, redis_key)}
    IN  [db |-> [key \in DOMAIN db \ keys_to_delete |-> db[key]],
         result |-> Cardinality(keys_to_delete)]

(***************************************************************************)
(* Incoming records.                                                       *)
(***************************************************************************)
Dependent(name) == [name |-> name]
DependentX(name, extra) == [name |-> name, extra |-> extra]

\* two entries of one name that differ in another field, and another name
DependentEntries == {Dependent(<<"d">>), DependentX(<<"d">>, <<"x">>), Dependent(<<"e">>)}

Implementation(vendor, feature) ==
    ("software-version" :> <<"1">>) @@ ("software-flavor" :> <<"f">>)
        @@ [vendor |-> vendor, platform |-> <<"p">>, feature |-> feature]

\* two references of one composite key that differ in another field, and
\* a reference of another key
ImplementationEntries ==
    {Implementation(<<"v">>, <<"a">>), Implementation(<<"v">>, <<"b">>),
     Implementation(<<"w">>, <<"a">>)}

Identity == [name |-> <<"m">>, revision |-> <<"r">>, organization |-> <<"o">>]

\* the records of one module, each carrying the identity and one more field
RichModules ==
    {Identity}
    \cup {Put(Identity, "description", v) : v \in {NULL, <<"x">>, <<"y">>}}
    \cup {Put(Identity, "dependents", l) : l \in SeqsOf(DependentEntries, 0, MaxList)}
    \cup {Put(Identity, "dependencies", l) :
            l \in SeqsOf({Dependent(<<"c">>), DependentX(<<"c">>, <<"x">>)}, 1, 1)}
    \cup {Put(Identity, "implementations", [implementation |-> l]) :
            l \in SeqsOf(ImplementationEntries, 0, MaxList)}

\* Records of three modules: a well-formed one, one whose organization has
\* a ':' in it, and one that lacks its name.
ColonIdentity == [name |-> <<"m">>, revision |-> <<"r">>, organization |-> <<"o", ":">>]
NamelessIdentity == [revision |-> <<"r">>, organization |-> <<"o">>]

SmallModules ==
    {Identity, Put(Identity, "description", <<"x">>), ColonIdentity, NamelessIdentity}

ModuleKeys == {create_module_key(module) : module \in SmallModules}

\* Records of the batches during which the store fails.
FaultModules == SmallModules \ {NamelessIdentity}

\* Records of callers that run concurrently: those of SmallModules, and one
\* that contributes another field to the well-formed module.
ConcurrentModules == SmallModules \cup {Put(Identity, "expires", <<"t">>)}

\* Segment strings of a vendor key and of a module key.
SegmentStrings == SeqsOf({"a", " ", "#", "/"}, 1, MaxSegLen)
IdentityStrings == SeqsOf({"a", "@"}, 1, MaxSegLen + 1)

ImplementationOf(names) ==
    ("software-version" :> names[3]) @@ ("software-flavor" :> names[4])
        @@ [vendor |-> names[1], platform |-> names[2]]

\* Records for the targeted deletions: dependents with a name twice,
\* implementations with a composite key twice, an expiry, and a second module.
TargetedModules ==
    {Put(Identity, "dependents",
         <<Dependent(<<"d">>), Dependent(<<"e">>), DependentX(<<"d">>, <<"x">>)>>),
     Put(Identity, "implementations",
         [implementation |-> <<Implementation(<<"v">>, <<"a">>),
                               Implementation(<<"w">>, <<"a">>),
                               Implementation(<<"v">>, <<"b">>)>>]),
     Put(Identity, "expires", <<"t">>),
     Put(ColonIdentity, "expires", <<"t">>)}

TargetedKeys == {create_module_key(Identity), create_module_key(ColonIdentity)}

\* names of dependents: two that are stored and one that never is
DependentNames == {<<"d">>, <<"e">>, <<"z">>}

\* keys of implementations: the four names joined by ',' and the composite
\* key of create_implementation_key, for two stored references and one that
\* never is
ImplementationKeys ==
    UNION {{ImplKey(impl), create_implementation_key(impl)} :
              impl \in {Implementation(<<"v">>, <<"a">>), Implementation(<<"w">>, <<"a">>),
                        Implementation(<<"z">>, <<"a">>)}}

\* Vendor trees handed to populate_implementation.
Protocols == [protocol |-> <<[name |-> <<"n">>]>>]

\* a software flavor with neither protocols nor modules, and one with both
BareFlavor == [name |-> <<"f">>]
FullFlavor == [name |-> <<"f">>, protocols |-> Protocols, modules |-> [module |-> <<Identity>>]]

\* a software flavor that lists one module twice, the second time with a
\* description
TwiceFlavor ==
    [name |-> <<"f">>,
     modules |-> [module |-> <<Identity, Put(Identity, "description", <<"x">>)>>]]

\* the tree of one vendor with one platform, one version and one flavor
Chain(vendor_name, platform_name, software_flavor) ==
    LET software_version ==
            [name |-> <<"1">>] @@
            ("software-flavors" :> ("software-flavor" :> <<software_flavor>>))
        platform ==
            [name |-> platform_name] @@
            ("software-versions" :> ("software-version" :> <<software_version>>))
    IN  [name |-> vendor_name, platforms |-> [platform |-> <<platform>>]]

\* Vendor 'a' with a platform whose name has a space, vendor 'ba' (its key
\* contains 'a/') with a module listed twice, and vendor 'a' with a platform
\* whose name has a '/'.
VendorTrees ==
    {Chain(<<"a">>, <<"p", " ", "q">>, FullFlavor),
     Chain(<<"b", "a">>, <<"p">>, TwiceFlavor),
     Chain(<<"a">>, <<"p", "/">>, BareFlavor)}

\* Module references of the terminal level of the vendor tree: two entries
\* of one module key that differ in another field, and two other modules.
LeafModules ==
    {Identity, Put(Identity, "description", <<"x">>), ColonIdentity, NamelessIdentity}

\* Vendor blocks that do not expand: one without its platforms, one whose
\* second platform lacks its software versions, one whose software version
\* lacks its flavors, one whose platforms hold no list, and one with a
\* flavor without a name.
BrokenTrees ==
    LET sound == Chain(<<"a">>, <<"p", " ", "q">>, FullFlavor)
        bare == Chain(<<"b", "a">>, <<"p">>, BareFlavor)
    IN  {[name |-> <<"c">>],
         Put(sound, "platforms",
             [platform |-> sound["platforms"]["platform"] \o <<[name |-> <<"r">>]>>]),
         Put(bare, "platforms",
             [platform |-> <<[name |-> <<"p">>] @@
                  ("software-versions" :> ("software-version" :> <<[name |-> <<"1">>]>>))>>]),
         [name |-> <<"c">>, platforms |-> EmptyDict],
         Chain(<<"a">>, <<"p">>, [protocols |-> Protocols])}

\* Records and vendor blocks of the calls that are followed step by step:
\* two flavors of one software version, so that the rebuild of the tree
\* merges down to the fourth level, a platform whose key does not decode,
\* and a block that does not expand.
RunModules == {Identity, ColonIdentity}

RunTrees ==
    {Chain(<<"a">>, <<"p">>, FullFlavor),
     Chain(<<"a">>, <<"p">>, [name |-> <<"g">>]),
     Chain(<<"a">>, <<"p", "/">>, BareFlavor),
     [name |-> <<"c">>]}

\* Vendor blocks whose protocols differ from the ones of VendorTrees: one
\* for the key of vendor 'a', and one that names a software flavor twice,
\* with other protocols the first time.
OtherProtocols == [protocol |-> <<[name |-> <<"o">>]>>]

ProtocolTrees ==
    LET other == [name |-> <<"f">>, protocols |-> OtherProtocols,
                  modules |-> [module |-> <<ColonIdentity>>]]
        twice == Chain(<<"b">>, <<"p">>, other)
        versions == twice["platforms"]["platform"][1]["software-versions"]["software-version"]
    IN  {Chain(<<"a">>, <<"p", " ", "q">>, other),
         Put(twice, "platforms",
             [platform |-> <<Put(twice["platforms"]["platform"][1], "software-versions",
                  ("software-version" :>
                      <<Put(versions[1], "software-flavors",
                            ("software-flavor" :> <<other, FullFlavor>>))>>))>>])}

\* Named nodes handed to merge_data: a name, and optionally a string field
\* and an object field that holds a list of named nodes.
NamedNodes ==
    LET names == {[name |-> n] : n \in {<<"a">>, <<"b">>}}
        labelled == names \cup {Put(node, "label", l) : node \in names, l \in {<<"1">>, <<"2">>}}
        kids == {[kid |-> <<[name |-> <<"c">>]>>],
                 [kid |-> <<[name |-> <<"c">>, label |-> <<"1">>]>>],
                 [kid |-> <<[name |-> <<"d">>]>>]}
    IN  labelled \cup {Put(node, "kids", k) : node \in labelled, k \in kids}

\* fragments of vendor keys: two vendors, one platform, and ''
Fragments ==
    {<<"a", "/">>, <<"b", "a", "/">>, <<"a", "/", "p", "#", "q", "/">>, <<>>}

(***************************************************************************)
(* Operations.                                                             *)
(***************************************************************************)
Init ==
    /\ modulesDB = EmptyDict
    /\ vendorsDB = EmptyDict
    /\ op = "init"
    /\ arg = <<>>
    /\ prev = EmptyDict
    /\ result = Returned(NULL)
    /\ fault = NoFault
    /\ inflight = [p \in Processes |-> Idle]
    /\ nOps = 0

\* populate_modules(new_modules); returns None.
PopulateModules(new_modules) ==
    /\ modulesDB' = PopulateAll(modulesDB, new_modules)
    /\ op' = "populate_modules"
    /\ fault' = NoFault
    /\ UNCHANGED inflight
    /\ arg' = new_modules
    /\ prev' = modulesDB
    /\ result' = Returned(NULL)
    /\ UNCHANGED vendorsDB

PopulateRich ==
    /\ nOps < MaxMerges
    /\ nOps' = nOps + 1
    /\ \E new_module \in RichModules : PopulateModules(<<new_module>>)

NextMerge == PopulateRich

PopulateSmall ==
    /\ \E new_modules \in SeqsOf(SmallModules, 0, MaxBatch) : PopulateModules(new_modules)
    /\ UNCHANGED nOps

\* reload_modules_cache(); returns the result of the SET.
ReloadModulesCache ==
    /\ modulesDB' = reload_modules_cache(modulesDB)
    /\ op' = "reload_modules_cache"
    /\ fault' = NoFault
    /\ UNCHANGED inflight
    /\ arg' = <<>>
    /\ prev' = modulesDB
    /\ result' = Returned(TRUE)
    /\ UNCHANGED <<vendorsDB, nOps>>

\* delete_modules(modules_keys); returns the result of the DEL.
DeleteModules ==
    \E modules_keys \in SeqsOf(ModuleKeys \cup {ModulesDataKey}, 0, MaxKeys) :
        /\ modulesDB' = delete_modules(modulesDB, modules_keys)
        /\ op' = "delete_modules"
        /\ fault' = NoFault
        /\ UNCHANGED inflight
        /\ arg' = modules_keys
        /\ prev' = modulesDB
        /\ result' = DelResult(modulesDB, modules_keys)
        /\ UNCHANGED <<vendorsDB, nOps>>

Next == PopulateSmall \/ ReloadModulesCache \/ DeleteModules

\* The module partition under populate_modules, reload_modules_cache and
\* delete_modules, each call running alone.
Spec == Init /\ [][Next]_vars

\* create_implementation_key of four names, and the key decoded again.
VendorKeyRoundTrip ==
    /\ op = "init"
    /\ \E names \in [1..4 -> SegmentStrings] :
          /\ op' = "create_implementation_key"
          /\ fault' = NoFault
          /\ UNCHANGED inflight
          /\ arg' = names
          /\ result' = DecodeVendorKey(create_implementation_key(ImplementationOf(names)))
          /\ UNCHANGED <<modulesDB, vendorsDB, prev>>
          /\ nOps' = nOps + 1

\* _create_module_key of two module records.
ModuleKeyPair ==
    /\ op = "init"
    /\ \E m1, m2 \in [name : IdentityStrings, revision : IdentityStrings,
                       organization : {<<"o">>}] :
          /\ op' = "_create_module_key"
          /\ fault' = NoFault
          /\ UNCHANGED inflight
          /\ arg' = <<m1, m2>>
          /\ result' = Returned(<<create_module_key(m1), create_module_key(m2)>>)
          /\ UNCHANGED <<modulesDB, vendorsDB, prev>>
          /\ nOps' = nOps + 1

NextKeys == VendorKeyRoundTrip \/ ModuleKeyPair

\* The key derivations as pure functions, applied once to every input.
SpecKeys == Init /\ [][NextKeys]_vars

\* One module record, merged again and again.
SpecMerge == Init /\ [][NextMerge]_vars

PopulateTargeted ==
    /\ \E new_module \in TargetedModules : PopulateModules(<<new_module>>)
    /\ UNCHANGED nOps

\* delete_dependent(redis_key, dependent_name)
DeleteDependent ==
    \E redis_key \in TargetedKeys, dependent_name \in DependentNames :
        LET done == delete_dependent(modulesDB, redis_key, dependent_name)
        IN  /\ modulesDB' = done.db
            /\ op' = "delete_dependent"
            /\ fault' = NoFault
            /\ UNCHANGED inflight
            /\ arg' = <<redis_key, dependent_name>>
            /\ prev' = modulesDB
            /\ result' = Returned(done.result)
            /\ UNCHANGED <<vendorsDB, nOps>>

\* delete_implementation(redis_key, implemntation_key)
DeleteImplementation ==
    \E redis_key \in TargetedKeys, implemntation_key \in ImplementationKeys :
        LET done == delete_implementation(modulesDB, redis_key, implemntation_key)
        IN  /\ modulesDB' = done.db
            /\ op' = "delete_implementation"
            /\ fault' = NoFault
            /\ UNCHANGED inflight
            /\ arg' = <<redis_key, implemntation_key>>
            /\ prev' = modulesDB
            /\ result' = Returned(done.result)
            /\ UNCHANGED <<vendorsDB, nOps>>

\* delete_expires(module)
DeleteExpires ==
    \E module \in {Identity, ColonIdentity} :
        LET done == delete_expires(modulesDB, module)
        IN  /\ modulesDB' = done.db
            /\ op' = "delete_expires"
            /\ fault' = NoFault
            /\ UNCHANGED inflight
            /\ arg' = <<module>>
            /\ prev' = modulesDB
            /\ result' = Returned(done.result)
            /\ UNCHANGED <<vendorsDB, nOps>>

\* populate_implementation(new_implemenetation); returns None.
PopulateImplementation ==
    \E new_implemenetation \in SeqsOf(VendorTrees, 1, MaxVendors) :
        /\ vendorsDB' = populate_implementation(vendorsDB, new_implemenetation)
        /\ op' = "populate_implementation"
        /\ fault' = NoFault
        /\ UNCHANGED inflight
        /\ arg' = new_implemenetation
        /\ prev' = vendorsDB
        /\ result' = Returned(NULL)
        /\ UNCHANGED <<modulesDB, nOps>>

\* reload_vendors_cache(); returns None.
ReloadVendorsCache ==
    \E order \in ScanOrders(vendorsDB) :
        LET done == reload_vendors_cache(vendorsDB, order)
        IN  /\ vendorsDB' = done.db
            /\ op' = "reload_vendors_cache"
            /\ fault' = NoFault
            /\ UNCHANGED inflight
            /\ arg' = <<>>
            /\ prev' = vendorsDB
            /\ result' = done.result
            /\ UNCHANGED <<modulesDB, nOps>>

\* create_vendors_data_dict(searched_key); returns the list of vendors.
CreateVendorsDataDict ==
    \E searched_key \in Fragments, order \in ScanOrders(vendorsDB) :
        /\ op' = "create_vendors_data_dict"
        /\ fault' = NoFault
        /\ UNCHANGED inflight
        /\ arg' = <<searched_key>>
        /\ prev' = vendorsDB
        /\ result' = create_vendors_data_dict(vendorsDB, searched_key, order)
        /\ UNCHANGED <<modulesDB, vendorsDB, nOps>>

\* delete_vendor(vendor_key); returns the number of keys deleted.
DeleteVendor ==
    \E vendor_key \in Fragments :
        LET done == delete_vendor(vendorsDB, vendor_key)
        IN  /\ vendorsDB' = done.db
            /\ op' = "delete_vendor"
            /\ fault' = NoFault
            /\ UNCHANGED inflight
            /\ arg' = <<vendor_key>>
            /\ prev' = vendorsDB
            /\ result' = Returned(done.result)
            /\ UNCHANGED <<modulesDB, nOps>>

NextVendors ==
    PopulateImplementation \/ ReloadVendorsCache \/ CreateVendorsDataDict \/ DeleteVendor

\* The vendor partition under populate_implementation, the rebuild of the
\* tree and delete_vendor, each call running alone.
SpecVendors == Init /\ [][NextVendors]_vars

\* merge_data(old, new) of two lists of named nodes; old after the call.
MergeDataNamed ==
    /\ op = "init"
    /\ \E old_list, new_list \in SeqsOf(NamedNodes, 1, 1) :
          /\ op' = "merge_data"
          /\ fault' = NoFault
          /\ UNCHANGED inflight
          /\ arg' = <<[node |-> old_list], [node |-> new_list]>>
          /\ result' = Returned(merge_data([node |-> old_list], [node |-> new_list]))
          /\ UNCHANGED <<modulesDB, vendorsDB, prev>>
          /\ nOps' = nOps + 1

NextMergeData == MergeDataNamed

\* merge_data as a pure function, applied once to every pair of inputs.
SpecMergeData == Init /\ [][NextMergeData]_vars

\* merge_data(old, new) of two {'module': [...]} lists; old after the call.
MergeDataModules ==
    /\ op = "init"
    /\ \E old_list, new_list \in SeqsOf(LeafModules, 0, MaxList) :
          /\ op' = "merge_data"
          /\ fault' = NoFault
          /\ UNCHANGED inflight
          /\ arg' = <<[module |-> old_list], [module |-> new_list]>>
          /\ result' = Returned(merge_data([module |-> old_list], [module |-> new_list]))
          /\ UNCHANGED <<modulesDB, vendorsDB, prev>>
          /\ nOps' = nOps + 1

NextMergeModules == MergeDataModules

\* merge_data of the terminal level as a pure function, applied once to
\* every pair of lists of module references.
SpecMergeModules == Init /\ [][NextMergeModules]_vars

\* populate_implementation(new_implemenetation) with a block that does not
\* expand after blocks that do.
PopulateBroken ==
    \E sound \in SeqsOf(VendorTrees, 0, MaxVendors - 1), broken \in BrokenTrees :
        LET new_implemenetation == sound \o <<broken>>
            done == populate_implementation_call(vendorsDB, new_implemenetation)
        IN  /\ vendorsDB' = done.db
            /\ op' = "populate_implementation"
            /\ fault' = NoFault
            /\ UNCHANGED inflight
            /\ arg' = new_implemenetation
            /\ prev' = vendorsDB
            /\ result' = done.result
            /\ UNCHANGED <<modulesDB, nOps>>

\* populate_implementation(new_implemenetation) with blocks that carry
\* other protocols.
PopulateProtocols ==
    \E new_implemenetation \in SeqsOf(ProtocolTrees, 1, MaxVendors) :
        LET done == populate_implementation_call(vendorsDB, new_implemenetation)
        IN  /\ vendorsDB' = done.db
            /\ op' = "populate_implementation"
            /\ fault' = NoFault
            /\ UNCHANGED inflight
            /\ arg' = new_implemenetation
            /\ prev' = vendorsDB
            /\ result' = done.result
            /\ UNCHANGED <<modulesDB, nOps>>

NextBlocks ==
    PopulateImplementation \/ PopulateBroken \/ PopulateProtocols \/ DeleteVendor

\* The vendor partition under populate_implementation over blocks that
\* expand and blocks that do not, and delete_vendor.
SpecBlocks == Init /\ [][NextBlocks]_vars

\* populate_modules(new_modules) with the store failing at one record:
\* a store call raises, or the SET reports an unsuccessful result.
PopulateFailing ==
    \E new_modules \in SeqsOf(FaultModules, 1, MaxBatch) :
        \E step \in 1..Len(new_modules), kind \in {"raises", "unsuccessful"} :
            LET done == populate_modules_failing(modulesDB, new_modules, step, kind)
            IN  /\ modulesDB' = done.db
                /\ op' = "populate_modules"
                /\ arg' = new_modules
                /\ prev' = modulesDB
                /\ result' = done.result
                /\ fault' = [step |-> step, kind |-> kind]
                /\ UNCHANGED <<vendorsDB, inflight, nOps>>

NextFaults == PopulateFailing

\* populate_modules over a store of which one call fails in every batch.
SpecFaults == Init /\ [][NextFaults]_vars

\* No concurrent call has started.
AllIdle == \A p \in Processes : inflight[p].pc = "idle"

\* the number of concurrent calls whose final SET has landed
Landed == Cardinality({p \in Processes : inflight[p].landed > 0})

\* populate_modules([new_module]) running alone, before any concurrent call
PopulateQuiet ==
    /\ AllIdle
    /\ \E new_module \in ConcurrentModules : PopulateModules(<<new_module>>)
    /\ UNCHANGED nOps

\* reload_modules_cache() running alone, before any concurrent call
ReloadQuiet == AllIdle /\ ReloadModulesCache

\* lines 88-89 of populate_modules([new_module]) called by p: the GET
PopulateGet(p) ==
    /\ inflight[p].pc = "idle"
    /\ \E new_module \in ConcurrentModules :
          inflight' = [inflight EXCEPT ![p] =
              [Idle EXCEPT !.call = "populate_modules", !.pc = "got",
                           !.new_module = new_module,
                           !.redis_module =
                               get_module(modulesDB, create_module_key(new_module)),
                           !.before = modulesDB]]
    /\ UNCHANGED <<modulesDB, vendorsDB, op, arg, prev, result, fault, nOps>>

\* lines 90-95 of the call of p: the merge and the SET
PopulateSet(p) ==
    /\ inflight[p].call = "populate_modules" /\ inflight[p].pc = "got"
    /\ modulesDB' = StoreMerged(modulesDB, inflight[p].new_module, inflight[p].redis_module)
    /\ inflight' = [inflight EXCEPT ![p].pc = "done", ![p].landed = Landed + 1]
    /\ op' = "populate_modules"
    /\ arg' = <<inflight[p].new_module>>
    /\ prev' = modulesDB
    /\ result' = Returned(NULL)
    /\ fault' = NoFault
    /\ UNCHANGED <<vendorsDB, nOps>>

NextRace ==
    PopulateQuiet \/ \E p \in Processes : PopulateGet(p) \/ PopulateSet(p)

\* Two callers of populate_modules whose store calls interleave.
SpecRace == Init /\ [][NextRace]_vars

\* lines 116-117 of reload_modules_cache() called by p: the scan begins
ReloadScan(p) ==
    /\ inflight[p].pc = "idle"
    /\ inflight' = [inflight EXCEPT ![p] =
          [Idle EXCEPT !.call = "reload_modules_cache", !.pc = "scanning",
                       !.keys = DOMAIN modulesDB, !.before = modulesDB]]
    /\ UNCHANGED <<modulesDB, vendorsDB, op, arg, prev, result, fault, nOps>>

\* lines 118-120 of the call of p: one key of the scan, in any order
ReloadGet(p) ==
    /\ inflight[p].call = "reload_modules_cache" /\ inflight[p].pc = "scanning"
    /\ \E redis_key \in inflight[p].keys :
          inflight' = [inflight EXCEPT
              ![p].keys = inflight[p].keys \ {redis_key},
              ![p].modules_data = ScanOne(modulesDB, inflight[p].modules_data, redis_key)]
    /\ UNCHANGED <<modulesDB, vendorsDB, op, arg, prev, result, fault, nOps>>

\* line 121 of the call of p: the SET of 'modules-data'
ReloadSet(p) ==
    /\ inflight[p].call = "reload_modules_cache" /\ inflight[p].pc = "scanning"
    /\ inflight[p].keys = {}
    /\ modulesDB' = set_redis_module(modulesDB, inflight[p].modules_data, ModulesDataKey)
    /\ inflight' = [inflight EXCEPT ![p].pc = "done", ![p].landed = Landed + 1]
    /\ op' = "reload_modules_cache"
    /\ arg' = <<>>
    /\ prev' = modulesDB
    /\ result' = Returned(TRUE)
    /\ fault' = NoFault
    /\ UNCHANGED <<vendorsDB, nOps>>

NextRebuilds ==
    \/ PopulateQuiet
    \/ ReloadQuiet
    \/ \E p \in Processes : ReloadScan(p) \/ ReloadGet(p) \/ ReloadSet(p)

\* Two callers of reload_modules_cache whose store calls interleave, with
\* no write of a module record while they run.
SpecRebuilds == Init /\ [][NextRebuilds]_vars

\* The caller whose calls are followed step by step.
Runners == {"p1"}

\* line 87 of populate_modules(new_modules) called by p: the loop begins
RunPopulateModules(p) ==
    /\ inflight[p].pc = "idle"
    /\ \E new_modules \in SeqsOf(RunModules, 0, MaxBatch) :
          inflight' = [inflight EXCEPT ![p] =
              [Idle EXCEPT !.call = "populate_modules", !.pc = "looping",
                           !.batch = new_modules]]
    /\ UNCHANGED <<modulesDB, vendorsDB, op, arg, prev, result, fault, nOps>>

\* lines 88-96: one record of the batch; turn tells one turn of a loop from
\* the next
PopulateRecord(p) ==
    /\ inflight[p].call = "populate_modules" /\ inflight[p].pc = "looping"
    /\ inflight[p].batch # <<>>
    /\ modulesDB' = PopulateOne(modulesDB, Head(inflight[p].batch))
    /\ inflight' = [inflight EXCEPT ![p].batch = Rest(inflight[p].batch),
                                    ![p].turn = 1 - @]
    /\ UNCHANGED <<vendorsDB, op, arg, prev, result, fault, nOps>>

\* the loop of a batch is over: the call returns
LoopReturn(p) ==
    /\ inflight[p].pc \in {"looping", "writing"}
    /\ inflight[p].batch = <<>>
    /\ inflight' = [inflight EXCEPT ![p].pc = "done"]
    /\ UNCHANGED <<modulesDB, vendorsDB, op, arg, prev, result, fault, nOps>>

\* the keys of data in the order in which line 206 created them
KeysInOrder(flavors) ==
    LET entries == OrderedUpdate(<<>>, [i \in 1..Len(flavors) |->
                                          [key |-> flavors[i].key, value |-> NULL]])
    IN  [i \in 1..Len(entries) |-> entries[i].key]

\* lines 195-209 of populate_implementation(new_implemenetation) called by
\* p: the blocks are expanded into data, or the expansion fails
RunPopulateImplementation(p) ==
    /\ inflight[p].pc = "idle"
    /\ \E new_implemenetation \in SeqsOf(RunTrees, 1, MaxVendors) :
          inflight' = [inflight EXCEPT ![p] =
              IF ExpandError(new_implemenetation) # "none"
              THEN [Idle EXCEPT !.call = "populate_implementation", !.pc = "failed"]
              ELSE LET flavors == Concat([i \in 1..Len(new_implemenetation) |->
                                             FlavorsOfVendor(new_implemenetation[i])])
                   IN  [Idle EXCEPT !.call = "populate_implementation", !.pc = "writing",
                                    !.modules_data = CollectData(EmptyDict, flavors),
                                    !.batch = KeysInOrder(flavors)]]
    /\ UNCHANGED <<modulesDB, vendorsDB, op, arg, prev, result, fault, nOps>>

\* lines 211-219: one key of data
ImplementationWrite(p) ==
    /\ inflight[p].call = "populate_implementation" /\ inflight[p].pc = "writing"
    /\ inflight[p].batch # <<>>
    /\ LET key == Head(inflight[p].batch)
       IN  vendorsDB' = Put(vendorsDB, key,
                            MergedImplementation(vendorsDB, key, inflight[p].modules_data[key]))
    /\ inflight' = [inflight EXCEPT ![p].batch = Rest(inflight[p].batch),
                                    ![p].turn = 1 - @]
    /\ UNCHANGED <<modulesDB, op, arg, prev, result, fault, nOps>>

\* lines 227-228 of reload_vendors_cache() called by p: the scan begins
RunReloadVendors(p) ==
    /\ inflight[p].pc = "idle"
    /\ inflight' = [inflight EXCEPT ![p] =
          [Idle EXCEPT !.call = "reload_vendors_cache", !.pc = "scanning",
                       !.keys = DOMAIN vendorsDB,
                       !.modules_data = "yang-catalog:vendor" :> <<>>]]
    /\ UNCHANGED <<modulesDB, vendorsDB, op, arg, prev, result, fault, nOps>>

\* lines 229-241: one key of the scan, in any order.  'vendors-data' is
\* skipped, a key that does not decode ends the call with ValueError, and
\* the tree of any other key is handed to merge_data: pending is what
\* vendors_data is once all the calls of merge_data have returned.
VendorScanKey(p) ==
    /\ inflight[p].call = "reload_vendors_cache" /\ inflight[p].pc = "scanning"
    /\ \E key \in inflight[p].keys :
          LET decoded == DecodeVendorKey(key)
          IN  inflight' = [inflight EXCEPT ![p] =
                  IF key = VendorsDataKey
                  THEN [@ EXCEPT !.keys = @ \ {key}]
                  ELSE IF decoded.error # "none"
                  THEN [@ EXCEPT !.pc = "failed"]
                  ELSE LET new_data ==
                               "yang-catalog:vendor" :>
                                   <<VendorTree(decoded.value,
                                                get_implementation(vendorsDB, key))>>
                       IN  [@ EXCEPT !.keys = @ \ {key}, !.pc = "merging",
                                     !.pending = merge_data(inflight[p].modules_data,
                                                            new_data),
                                     !.frames = MergeCalls(inflight[p].modules_data,
                                                           new_data)]]
    /\ UNCHANGED <<modulesDB, vendorsDB, op, arg, prev, result, fault, nOps>>

\* line 274: a call of merge_data made by merge_data returns
MergeCall(p) ==
    /\ inflight[p].pc = "merging" /\ inflight[p].frames > 1
    /\ inflight' = [inflight EXCEPT ![p].frames = @ - 1]
    /\ UNCHANGED <<modulesDB, vendorsDB, op, arg, prev, result, fault, nOps>>

\* line 241: the call of merge_data made by the scan returns
MergeReturn(p) ==
    /\ inflight[p].pc = "merging" /\ inflight[p].frames = 1
    /\ inflight' = [inflight EXCEPT
          ![p].modules_data = inflight[p].pending,
          ![p].pc = "scanning", ![p].frames = 0, ![p].pending = EmptyDict]
    /\ UNCHANGED <<modulesDB, vendorsDB, op, arg, prev, result, fault, nOps>>

\* line 224: the SET of 'vendors-data'
VendorSet(p) ==
    /\ inflight[p].call = "reload_vendors_cache" /\ inflight[p].pc = "scanning"
    /\ inflight[p].keys = {}
    /\ vendorsDB' = Put(vendorsDB, VendorsDataKey,
                        [vendor |-> inflight[p].modules_data["yang-catalog:vendor"]])
    /\ inflight' = [inflight EXCEPT ![p].pc = "done"]
    /\ UNCHANGED <<modulesDB, op, arg, prev, result, fault, nOps>>

\* a store call of the call of p raises: nothing catches it, the call ends
StoreFails(p) ==
    /\ \/ inflight[p].pc \in {"looping", "writing"} /\ inflight[p].batch # <<>>
       \/ inflight[p].pc = "scanning"
    /\ inflight' = [inflight EXCEPT ![p].pc = "failed"]
    /\ UNCHANGED <<modulesDB, vendorsDB, op, arg, prev, result, fault, nOps>>

\* the caller of p has the outcome and may call again
CallAgain(p) ==
    /\ inflight[p].pc \in {"done", "failed"}
    /\ inflight' = [inflight EXCEPT ![p] = Idle]
    /\ UNCHANGED <<modulesDB, vendorsDB, op, arg, prev, result, fault, nOps>>

\* the steps of a call that has begun
RunStep(p) ==
    \/ StoreFails(p)
    \/ LoopReturn(p) \/ MergeCall(p) \/ MergeReturn(p)
    \/ PopulateRecord(p) \/ ImplementationWrite(p)
    \/ ReloadGet(p) \/ ReloadSet(p)
    \/ VendorScanKey(p) \/ VendorSet(p)

NextRuns ==
    \E p \in Runners :
        \/ RunPopulateModules(p) \/ RunPopulateImplementation(p)
        \/ ReloadScan(p) \/ RunReloadVendors(p)
        \/ RunStep(p) \/ CallAgain(p)

\* The four batch operations followed step by step, one store call or one
\* call of merge_data at a time.  A call that has begun takes its next step
\* in the end: each store call returns or fails.
SpecRuns == Init /\ [][NextRuns]_vars /\ \A p \in Runners : WF_vars(RunStep(p))

\* delete_modules([key]) of a key that is stored, while other calls are in
\* flight: one DEL.  Every call that has begun notes the key as gone since.
DeleteInFlight ==
    \E key \in ModuleKeys \cap DOMAIN modulesDB :
        /\ modulesDB' = delete_modules(modulesDB, <<key>>)
        /\ inflight' = [p \in Processes |->
              IF inflight[p].pc = "idle" THEN inflight[p]
              ELSE [inflight[p] EXCEPT !.gone = @ \cup {key}]]
        /\ op' = "delete_modules"
        /\ arg' = <<key>>
        /\ prev' = modulesDB
        /\ result' = DelResult(modulesDB, <<key>>)
        /\ fault' = NoFault
        /\ UNCHANGED <<vendorsDB, nOps>>

NextDeletes ==
    \/ PopulateQuiet
    \/ DeleteInFlight
    \/ \E p \in Processes : PopulateGet(p) \/ PopulateSet(p)

\* Two callers of populate_modules whose store calls interleave with each
\* other and with calls of delete_modules.
SpecDeletes == Init /\ [][NextDeletes]_vars

NextRebuildDeletes ==
    \/ PopulateQuiet
    \/ DeleteInFlight
    \/ \E p \in Processes : ReloadScan(p) \/ ReloadGet(p) \/ ReloadSet(p)

\* Two callers of reload_modules_cache whose store calls interleave with
\* each other and with calls of delete_modules; no record is written
\* while a rebuild runs.
SpecRebuildDeletes == Init /\ [][NextRebuildDeletes]_vars

\* populate_modules([new_module]) running to its end while rebuilds are in
\* flight
PopulateInFlight ==
    /\ \E new_module \in {Identity, ColonIdentity} : PopulateModules(<<new_module>>)
    /\ UNCHANGED nOps

NextStale ==
    \/ PopulateInFlight
    \/ \E p \in Processes : ReloadScan(p) \/ ReloadGet(p) \/ ReloadSet(p)

\* Two callers of reload_modules_cache whose store calls interleave with
\* each other and with calls of populate_modules.
SpecStale == Init /\ [][NextStale]_vars

NextTargeted == PopulateTargeted \/ DeleteDependent \/ DeleteImplementation \/ DeleteExpires

\* The module partition under populate_modules and the targeted deletions.
SpecTargeted == Init /\ [][NextTargeted]_vars

(***************************************************************************)
(* Vocabulary of the properties.                                           *)
(***************************************************************************)
ListFields == {"dependents", "dependencies", "implementations"}

\* the field is absent from the dict, or present with the value null
Missing(d, field) == field \notin DOMAIN d \/ (field \notin ListFields /\ d[field] = NULL)

NamesOf(prop_list) == {Get(prop_list[i], "name") : i \in 1..Len(prop_list)}

ImplKeysOf(impls) == {create_implementation_key(impls[i]) : i \in 1..Len(impls)}

\* the least and the greatest position of a name in a list that has it
FirstWithName(prop_list, name) ==
    CHOOSE i \in 1..Len(prop_list) :
        /\ Get(prop_list[i], "name") = name
        /\ \A j \in 1..Len(prop_list) : Get(prop_list[j], "name") = name => i <= j

LastWithName(prop_list, name) ==
    CHOOSE i \in 1..Len(prop_list) :
        /\ Get(prop_list[i], "name") = name
        /\ \A j \in 1..Len(prop_list) : Get(prop_list[j], "name") = name => j <= i

\* The last operation was populate_modules([r]).
PopulatedOne == op = "populate_modules" /\ Len(arg) = 1

TheKey == create_module_key(arg[1])

\* The last operation was populate_modules([r]) and r's key held a
\* non-empty record, so r was merged into it.
MergedOne ==
    /\ PopulatedOne
    /\ TheKey \in DOMAIN prev
    /\ DOMAIN prev[TheKey] # {}

\* MergedOne, and both the stored and the incoming record have the field.
MergedField(field) ==
    /\ MergedOne
    /\ field \in DOMAIN prev[TheKey]
    /\ field \in DOMAIN arg[1]

(***************************************************************************)
(* C1.  Idempotence: after populate_modules([r]), a second                 *)
(* populate_modules([r]) leaves the record stored under r's key as the     *)
(* first call left it.                                                     *)
(***************************************************************************)
C1_PopulateTwiceIsPopulateOnce ==
    PopulatedOne => PopulateAll(modulesDB, arg)[TheKey] = modulesDB[TheKey]

(***************************************************************************)
(* C2.  Non-destructive union: when r is merged into a stored non-empty    *)
(* record, every field only the stored record had keeps its value and      *)
(* every field only r had (with a value other than null) is stored with    *)
(* r's value, whatever kind of field it is.                                *)
(***************************************************************************)
C2_NonDestructiveUnion ==
    MergedOne =>
        LET new == arg[1]
            old == prev[TheKey]
            now == modulesDB[TheKey]
        IN  /\ \A A \in DOMAIN old \ DOMAIN new :
                  A \in DOMAIN now /\ now[A] = old[A]
            /\ \A B \in DOMAIN new \ DOMAIN old :
                  ~Missing(new, B) => B \in DOMAIN now /\ now[B] = new[B]

C4_Case(a, b) ==
    /\ MergedField("implementations")
    /\ LET E == prev[TheKey]["implementations"]["implementation"]
           N == arg[1]["implementations"]["implementation"]
       IN  /\ Len(N) = 2
           /\ {a, b} = {1, 2}
           /\ create_implementation_key(N[a]) \in ImplKeysOf(E)
           /\ create_implementation_key(N[b]) \notin ImplKeysOf(E)

C4_ImplementationAppendOnly ==
    \A a, b \in {1, 2} :
        C4_Case(a, b) =>
            modulesDB[TheKey]["implementations"]["implementation"]
                = Append(prev[TheKey]["implementations"]["implementation"],
                         arg[1]["implementations"]["implementation"][b])

\* the incoming entry of the known key differs from the stored one, which stayed
C4_Witness ==
    \E a, b \in {1, 2} :
        /\ C4_Case(a, b)
        /\ LET E == prev[TheKey]["implementations"]["implementation"]
               N == arg[1]["implementations"]["implementation"]
           IN  /\ \A i \in 1..Len(E) : E[i] # N[a]
               /\ Len(modulesDB[TheKey]["implementations"]["implementation"]) = Len(E) + 1

(***************************************************************************)
(* C5.  Dependency overwrite, for dependents and for dependencies: an      *)
(* incoming entry whose name the stored list has replaces the stored entry *)
(* of that name (the first one) at its index, every other stored entry     *)
(* keeps its position, and when every incoming name is a stored name the   *)
(* length of the list is unchanged.                                        *)
(***************************************************************************)
C5_Overwrite(field) ==
    (MergedField(field) /\ prev[TheKey][field] # <<>>) =>
        LET E == prev[TheKey][field]
            N == arg[1][field]
            P == modulesDB[TheKey][field]
            Hit(i) == /\ Get(E[i], "name") \in NamesOf(N)
                      /\ i = FirstWithName(E, Get(E[i], "name"))
        IN  /\ Len(P) >= Len(E)
            /\ \A j \in 1..Len(N) :
                  (/\ Get(N[j], "name") \in NamesOf(E)
                   /\ \A j2 \in 1..Len(N) :
                         Get(N[j2], "name") = Get(N[j], "name") => j2 = j)
                  => P[FirstWithName(E, Get(N[j], "name"))] = N[j]
            /\ \A i \in 1..Len(E) : ~Hit(i) => P[i] = E[i]
            /\ NamesOf(N) \subseteq NamesOf(E) => Len(P) = Len(E)

C6_AsClaimed ==
    MergedField("dependents") =>
        LET E == prev[TheKey]["dependents"]
            N == arg[1]["dependents"]
            P == modulesDB[TheKey]["dependents"]
            IsNew(n) == Get(n, "name") \notin NamesOf(E)
            Added == SelectSeq(N, IsNew)
        IN  /\ Len(P) = Len(E) + Len(Added)
            /\ \A i \in 1..Len(E) :
                  IF Get(E[i], "name") \in NamesOf(N)
                  THEN \E j \in 1..Len(N) :
                          Get(N[j], "name") = Get(E[i], "name") /\ P[i] = N[j]
                  ELSE P[i] = E[i]
            /\ \A t \in 1..Len(Added) : P[Len(E) + t] = Added[t]

\* C6 as amended: an empty stored list is replaced by N as it is.  Otherwise
\* the first entry of E of each name occurring in N is replaced in place by
\* the last entry of N of that name, every other entry of E is kept, and
\* they are followed by one entry for each name of N that does not occur in
\* E, in the order in which these names first occur in N, each being the
\* last entry of N of its name.
C6_MergedDependents ==
    MergedField("dependents") =>
        LET E == prev[TheKey]["dependents"]
            N == arg[1]["dependents"]
            P == modulesDB[TheKey]["dependents"]
            NewFirsts == {j \in 1..Len(N) :
                             /\ Get(N[j], "name") \notin NamesOf(E)
                             /\ j = FirstWithName(N, Get(N[j], "name"))}
            Rank(j) == Cardinality({j2 \in NewFirsts : j2 <= j})
        IN  IF E = <<>> THEN P = N
            ELSE /\ Len(P) = Len(E) + Cardinality(NewFirsts)
                 /\ \A i \in 1..Len(E) :
                       P[i] = IF /\ Get(E[i], "name") \in NamesOf(N)
                                 /\ i = FirstWithName(E, Get(E[i], "name"))
                              THEN N[LastWithName(N, Get(E[i], "name"))]
                              ELSE E[i]
                 /\ \A j \in NewFirsts :
                       P[Len(E) + Rank(j)] = N[LastWithName(N, Get(N[j], "name"))]

\* the case of the specification: stored [d], incoming [d with extra, e]
C6_Witness ==
    /\ MergedField("dependents")
    /\ prev[TheKey]["dependents"] = <<Dependent(<<"d">>)>>
    /\ arg[1]["dependents"] = <<DependentX(<<"d">>, <<"x">>), Dependent(<<"e">>)>>
    /\ modulesDB[TheKey]["dependents"] = <<DependentX(<<"d">>, <<"x">>), Dependent(<<"e">>)>>

(***************************************************************************)
(* C7.  Vendor key round-trip: decoding the key built from four segment    *)
(* strings gives back exactly the four strings.                            *)
(***************************************************************************)
C7_VendorKeyRoundTrip ==
    op = "create_implementation_key" => result = Returned(arg)

(***************************************************************************)
(* C8.  Module keys are collision-free: two module records have the same   *)
(* key exactly when they have the same name, revision and organization.    *)
(***************************************************************************)
C8_ModuleKeysCollisionFree ==
    op = "_create_module_key" =>
        (result.value[1] = result.value[2] <=> arg[1] = arg[2])

(***************************************************************************)
(* C9.  Malformed records fail fast: when a record of the batch lacks its  *)
(* name, revision or organization (or has it empty), populate_modules      *)
(* fails with MalformedRecord at the first such record and writes nothing  *)
(* for it: the store is what the records before it left.                   *)
(***************************************************************************)
Malformed(module) ==
    \E field \in {"name", "revision", "organization"} :
        Missing(module, field) \/ module[field] = <<>>

C9_MalformedFailsFast ==
    \A i \in 1..Len(arg) :
        (/\ op = "populate_modules"
         /\ Malformed(arg[i])
         /\ \A j \in 1..(i - 1) : ~Malformed(arg[j]))
        => /\ result.error = "MalformedRecord"
           /\ modulesDB = PopulateAll(prev, SubSeq(arg, 1, i - 1))

(***************************************************************************)
(* C10.  Module cache rebuild.                                             *)
(***************************************************************************)
PrimitiveKeys(db) == DOMAIN db \ {ModulesDataKey}

Listed(modules_keys) == {modules_keys[i] : i \in 1..Len(modules_keys)}

\* C19: delete_modules of any finite sequence of keys, the empty one
\* included, returns the number of listed keys that were present; after it
\* no listed key is present and every unlisted key keeps its value.
C19_DeleteModulesOfAnySequence ==
    op = "delete_modules" =>
        /\ result.error = "none"
        /\ result.value = Cardinality(Listed(arg) \cap DOMAIN prev)
        /\ Listed(arg) \cap DOMAIN modulesDB = {}
        /\ \A key \in DOMAIN prev \ Listed(arg) :
              key \in DOMAIN modulesDB /\ modulesDB[key] = prev[key]

\* the record a key held before the last call, and the one it holds now
Before(key) == get_module(prev, key)
After(key) == get_module(modulesDB, key)

\* every key but the one named holds what it held before the last call
OthersUnchanged(key) ==
    /\ DOMAIN modulesDB \ {key} = DOMAIN prev \ {key}
    /\ \A other \in DOMAIN prev \ {key} : modulesDB[other] = prev[other]

\* every field of the record but the one named is what it was
OtherFieldsUnchanged(key, field) ==
    /\ DOMAIN After(key) \ {field} = DOMAIN Before(key) \ {field}
    /\ \A f \in DOMAIN Before(key) \ {field} : After(key)[f] = Before(key)[f]

\* the stored dependents of the key before the call have the name
HadDependent(key, name) ==
    /\ "dependents" \in DOMAIN Before(key)
    /\ name \in NamesOf(Before(key)["dependents"])

\* C15: when delete_dependent finds a dependent of the name it removes
\* exactly the first one (later entries of the name, the other dependents in
\* their order, the other fields and the other keys stay), stores the record
\* and returns a true result.
C15_FirstDependentRemoved ==
    (op = "delete_dependent" /\ HadDependent(arg[1], arg[2])) =>
        LET old == Before(arg[1])["dependents"]
            first == FirstWithName(old, arg[2])
        IN  /\ result = Returned(TRUE)
            /\ arg[1] \in DOMAIN modulesDB
            /\ "dependents" \in DOMAIN After(arg[1])
            /\ LET new == After(arg[1])["dependents"]
               IN  /\ Len(new) = Len(old) - 1
                   /\ \A i \in 1..Len(new) :
                         new[i] = IF i < first THEN old[i] ELSE old[i + 1]
            /\ OtherFieldsUnchanged(arg[1], "dependents")
            /\ OthersUnchanged(arg[1])

\* a first dependent of the name is removed and a later one stays, next to
\* another field and another key
C15_Witness ==
    /\ op = "delete_dependent"
    /\ HadDependent(arg[1], arg[2])
    /\ arg[2] \in NamesOf(After(arg[1])["dependents"])
    /\ Len(After(arg[1])["dependents"]) = 2
    /\ "expires" \in DOMAIN After(arg[1])
    /\ DOMAIN prev \ {arg[1]} # {}

\* the implementations stored under the key before the last call
ImplementationsBefore(key) ==
    IF "implementations" \in DOMAIN Before(key)
    THEN Before(key)["implementations"]["implementation"]
    ELSE <<>>

\* the last call was a targeted deletion that found nothing to remove: no
\* stored dependent of the name, or no stored reference of the key
NothingToRemove ==
    \/ op = "delete_dependent" /\ ~HadDependent(arg[1], arg[2])
    \/ /\ op = "delete_implementation"
       /\ \A i \in 1..Len(ImplementationsBefore(arg[1])) :
             ImplKey(ImplementationsBefore(arg[1])[i]) # arg[2]

\* C16: a targeted deletion that finds no dependent of the name, or no
\* implementation of the key (the module key being absent included), returns
\* False, raises nothing and leaves the partition as it was.
C16_NotFoundIsNoOp ==
    NothingToRemove => result = Returned(FALSE) /\ modulesDB = prev

\* delete_implementation of a key that no stored reference has, on a record
\* that has references, and on a module key that is absent
C16_Witness ==
    /\ NothingToRemove
    /\ op = "delete_implementation"
    /\ \/ Len(ImplementationsBefore(arg[1])) > 0
       \/ arg[1] \notin DOMAIN prev /\ prev # EmptyDict

\* C17: delete_implementation(moduleKey, create_implementation_key(ref)),
\* for a reference ref stored in the module's implementations, removes ref
\* from the stored record and returns a true result.
C17_DeleteByCompositeKey ==
    (/\ op = "delete_implementation"
     /\ \E i \in 1..Len(ImplementationsBefore(arg[1])) :
           arg[2] = create_implementation_key(ImplementationsBefore(arg[1])[i]))
    => /\ result = Returned(TRUE)
       /\ Len(After(arg[1])["implementations"]["implementation"])
            = Len(ImplementationsBefore(arg[1])) - 1

\* C18: after delete_expires(m) on a stored module, the stored record has
\* no 'expires' field, every other field of it is what it was, and no other
\* key of the partition has changed.
C18_OnlyExpiresRemoved ==
    (op = "delete_expires" /\ create_module_key(arg[1]) \in DOMAIN prev) =>
        LET redis_key == create_module_key(arg[1])
        IN  /\ redis_key \in DOMAIN modulesDB
            /\ "expires" \notin DOMAIN After(redis_key)
            /\ OtherFieldsUnchanged(redis_key, "expires")
            /\ OthersUnchanged(redis_key)

\* the record had an expiry and fields that the identity does not hold, and
\* another key is stored
C18_Witness ==
    /\ op = "delete_expires"
    /\ create_module_key(arg[1]) \in DOMAIN prev
    /\ {"expires", "dependents"} \subseteq DOMAIN Before(create_module_key(arg[1]))
    /\ DOMAIN prev \ {create_module_key(arg[1])} # {}

\* C20: a key other than 'modules-data' comes to exist only by a
\* populate_modules call that wrote a record for it; delete_dependent,
\* delete_implementation and delete_expires never store a record under a key
\* that held no value.
C20_OnlyPopulateCreatesKeys ==
    \A key \in DOMAIN modulesDB \ DOMAIN prev :
        key # ModulesDataKey =>
            /\ op = "populate_modules"
            /\ \E i \in 1..Len(arg) : create_module_key(arg[i]) = key

\* C13: once delete_vendor(f) has completed, no key of the vendor
\* partition contains f, and create_vendors_data_dict(f) returns the empty
\* list whatever the order of the scan.
C13_NothingLeftOfFragment ==
    /\ op = "delete_vendor" =>
          /\ \A key \in DOMAIN vendorsDB : ~IsSubstring(arg[1], key)
          /\ \A order \in ScanOrders(vendorsDB) :
                create_vendors_data_dict(vendorsDB, arg[1], order) = Returned(<<>>)
    /\ (/\ op = "create_vendors_data_dict"
        /\ \A key \in DOMAIN vendorsDB : ~IsSubstring(arg[1], key))
       => result = Returned(<<>>)

\* delete_vendor has deleted keys and has left others
C13_Witness ==
    /\ op = "delete_vendor"
    /\ DOMAIN prev \ DOMAIN vendorsDB # {}
    /\ DOMAIN vendorsDB \ {VendorsDataKey} # {}

\* the keys of the partition whose first segment, or first two segments,
\* are the ones the fragment names
KeysOfSubtree(db, segments) ==
    {key \in DOMAIN db \ {VendorsDataKey} :
        LET names == Split(key, "/")
        IN  /\ Len(names) >= Len(segments)
            /\ SubSeq(names, 1, Len(segments)) = segments}

\* C14: delete_vendor('V/') removes exactly the keys whose vendor segment
\* is V, and delete_vendor('V/P/') exactly those of vendor V and platform P;
\* every key of another vendor or platform stays as it was.
C14_ExactlyTheSubtree ==
    (op = "delete_vendor" /\ arg[1] # <<>>) =>
        LET segments == SubSeq(Split(arg[1], "/"), 1, Len(Split(arg[1], "/")) - 1)
        IN  /\ DOMAIN prev \ DOMAIN vendorsDB = KeysOfSubtree(prev, segments)
            /\ \A key \in DOMAIN prev \ KeysOfSubtree(prev, segments) :
                  key \in DOMAIN vendorsDB /\ vendorsDB[key] = prev[key]

\* no two nodes of a list of the tree have one name
DistinctNames(nodes) ==
    \A i, j \in 1..Len(nodes) : nodes[i]["name"] = nodes[j]["name"] => i = j

PlatformsOf(vendor) == vendor["platforms"]["platform"]
VersionsOf(platform) == platform["software-versions"]["software-version"]
FlavorsOf(software_version) == software_version["software-flavors"]["software-flavor"]

\* (a): no two siblings share a name, at any of the four levels
SiblingsDistinct(vendors) ==
    /\ DistinctNames(vendors)
    /\ \A v \in 1..Len(vendors) :
          /\ DistinctNames(PlatformsOf(vendors[v]))
          /\ \A p \in 1..Len(PlatformsOf(vendors[v])) :
                LET platform == PlatformsOf(vendors[v])[p]
                IN  /\ DistinctNames(VersionsOf(platform))
                    /\ \A sv \in 1..Len(VersionsOf(platform)) :
                          DistinctNames(FlavorsOf(VersionsOf(platform)[sv]))

\* the root-to-leaf paths of the tree, each with what its leaf carries
\* besides the name
PathsOf(vendors) ==
    UNION {UNION {UNION {
        {[names |-> <<vendors[v]["name"], PlatformsOf(vendors[v])[p]["name"],
                      VersionsOf(PlatformsOf(vendors[v])[p])[sv]["name"],
                      FlavorsOf(VersionsOf(PlatformsOf(vendors[v])[p])[sv])[sf]["name"]>>,
           data |-> Pop(FlavorsOf(VersionsOf(PlatformsOf(vendors[v])[p])[sv])[sf], "name")] :
            sf \in 1..Len(FlavorsOf(VersionsOf(PlatformsOf(vendors[v])[p])[sv]))} :
          sv \in 1..Len(VersionsOf(PlatformsOf(vendors[v])[p]))} :
        p \in 1..Len(PlatformsOf(vendors[v]))} :
      v \in 1..Len(vendors)}

\* the primitive keys of the partition decoded, each with its stored value
DecodedKeys(db) ==
    {[names |-> Split(Replace(key, "#", " "), "/"), data |-> db[key]] :
        key \in DOMAIN db \ {VendorsDataKey}}

\* C12: in every state of the vendor partition that populate_implementation
\* and delete_vendor reach, create_vendors_data_dict('') returns a tree in
\* which (a) no two siblings share a name at any level and (b) the
\* root-to-leaf paths are exactly the decoded primitive keys, each leaf
\* carrying the protocols and modules stored under its key.
C12_TreeMirrorsKeys ==
    (op = "create_vendors_data_dict" /\ arg[1] = <<>>) =>
        /\ result.error = "none"
        /\ SiblingsDistinct(result.value)
        /\ PathsOf(result.value) = DecodedKeys(vendorsDB)

\* the same, of the states in which every key decodes into four names
TreeMirrorsDecodableKeys ==
    (/\ op = "create_vendors_data_dict" /\ arg[1] = <<>>
     /\ \A key \in DOMAIN vendorsDB \ {VendorsDataKey} : Len(Split(key, "/")) = 4)
    => /\ result.error = "none"
       /\ SiblingsDistinct(result.value)
       /\ PathsOf(result.value) = DecodedKeys(vendorsDB)

\* a partition without one key
Without(db, key) == [k \in DOMAIN db \ {key} |-> db[k]]

\* what 'vendors-data' holds, the order of the lists of the tree left aside
VendorsAggregate(db) ==
    IF VendorsDataKey \in DOMAIN db
    THEN [present |-> TRUE, paths |-> PathsOf(db[VendorsDataKey]["vendor"])]
    ELSE [present |-> FALSE, paths |-> {}]

\* C11: a rebuild run again with no write in between leaves the aggregate
\* the first one left, and the aggregate a rebuild leaves is the same
\* whatever the aggregate key held before, or whether it existed.
C11_RebuildIdempotent ==
    /\ op = "reload_modules_cache" =>
          /\ reload_modules_cache(modulesDB) = modulesDB
          /\ reload_modules_cache(Without(prev, ModulesDataKey)) = modulesDB
    /\ op = "reload_vendors_cache" =>
          /\ \A order \in ScanOrders(vendorsDB) :
                VendorsAggregate(reload_vendors_cache(vendorsDB, order).db)
                    = VendorsAggregate(vendorsDB)
          /\ \A order \in ScanOrders(Without(prev, VendorsDataKey)) :
                VendorsAggregate(
                    reload_vendors_cache(Without(prev, VendorsDataKey), order).db)
                    = VendorsAggregate(vendorsDB)

\* C27: for every field other than implementations, dependents and
\* dependencies, after the incoming record n is merged into the stored
\* record e the stored value is n's value when that is non-null and differs
\* from e's, and e's value otherwise.
C27_ScalarRule ==
    MergedOne =>
        \A field \in (DOMAIN arg[1] \cup DOMAIN prev[TheKey]) \ ListFields :
            LET n == Get(arg[1], field)
                e == Get(prev[TheKey], field)
            IN  /\ Get(modulesDB[TheKey], field) = IF n # NULL /\ n # e THEN n ELSE e
                /\ field \in DOMAIN prev[TheKey] => field \in DOMAIN modulesDB[TheKey]

\* a stored description replaced by an incoming one that differs
C27_Witness ==
    /\ MergedField("description")
    /\ prev[TheKey]["description"] = <<"x">>
    /\ arg[1]["description"] = <<"y">>
    /\ modulesDB[TheKey]["description"] = <<"y">>

\* no two entries of a list of dependencies have one name
UniqueNames(prop_list) ==
    \A i, j \in 1..Len(prop_list) :
        Get(prop_list[i], "name") = Get(prop_list[j], "name") => i = j

\* C28: after any sequence of populate_modules calls, no stored module
\* record has two entries of one name in its dependents or in its
\* dependencies.
C28_DependenciesUniqueByName ==
    \A key \in DOMAIN modulesDB \ {ModulesDataKey} :
        \A field \in {"dependents", "dependencies"} \cap DOMAIN modulesDB[key] :
            UniqueNames(modulesDB[key][field])

\* C29: after any sequence of populate_modules calls, no stored module
\* record has two implementation references of one composite key.
C29_ImplementationsUniqueByKey ==
    \A key \in DOMAIN modulesDB \ {ModulesDataKey} :
        "implementations" \in DOMAIN modulesDB[key] =>
            LET impls == modulesDB[key]["implementations"]["implementation"]
            IN  \A i, j \in 1..Len(impls) :
                    create_implementation_key(impls[i]) = create_implementation_key(impls[j])
                        => i = j

\* the software flavors a call of populate_implementation was handed, each
\* with its key, in the order of the call
FlavorsOfCall ==
    Concat([i \in 1..Len(arg) |-> FlavorsOfVendor(arg[i])])

\* the modules the call was handed for a key, in the order of the call
ModulesOfCall(key) ==
    Concat([i \in 1..Len(FlavorsOfCall) |->
               IF FlavorsOfCall[i].key = key
               THEN GetOr(GetOr(FlavorsOfCall[i].software_flavor, "modules", EmptyDict),
                          "module", <<>>)
               ELSE <<>>])

\* C23: after populate_implementation, of every leaf written the stored
\* modules list has at most one entry per module key, and a module key that
\* the call names is stored with the last entry the call has for it, whether
\* or not the leaf key held a record before.
C23_ModulesDedupedLastWins ==
    op = "populate_implementation" =>
        \A f \in 1..Len(FlavorsOfCall) :
            LET key == FlavorsOfCall[f].key
                stored == vendorsDB[key]["modules"]["module"]
                given == ModulesOfCall(key)
            IN  /\ \A i, j \in 1..Len(stored) :
                      create_module_key(stored[i]) = create_module_key(stored[j]) => i = j
                /\ \A g \in 1..Len(given) :
                      (\A h \in (g + 1)..Len(given) :
                           create_module_key(given[h]) # create_module_key(given[g]))
                      => \E i \in 1..Len(stored) : stored[i] = given[g]

\* the key holds in both partitions' states the same value, or none in both
SameUnder(key, before, after) ==
    /\ key \in DOMAIN before <=> key \in DOMAIN after
    /\ key \in DOMAIN before => after[key] = before[key]

\* C26: populate_modules, populate_implementation, delete_dependent,
\* delete_implementation, delete_expires, delete_modules and delete_vendor,
\* whatever their arguments, leave the values under 'modules-data' and
\* 'vendors-data' as they were, neither modified nor deleted.
C26_AggregatesWrittenOnlyByRebuilds ==
    /\ op \in {"populate_modules", "delete_dependent", "delete_implementation",
                "delete_expires", "delete_modules"}
          => SameUnder(ModulesDataKey, prev, modulesDB)
    /\ op \in {"populate_implementation", "delete_vendor"}
          => SameUnder(VendorsDataKey, prev, vendorsDB)

\* C30: when merge_data merges two lists of named nodes and a name
\* occurs on both sides, the merged node has every field of either side:
\* a field of only one side as it is, a shared object field merged
\* recursively, a shared string field with the new value.
C30_MergedNodeKeepsOneSidedFields ==
    op = "merge_data" =>
        LET old_list == arg[1]["node"]
            new_list == arg[2]["node"]
            merged == result.value["node"]
        IN  \A i \in 1..Len(old_list), j \in 1..Len(new_list) :
                old_list[i]["name"] = new_list[j]["name"] =>
                    \E m \in 1..Len(merged) :
                        LET old_node == old_list[i]
                            new_node == new_list[j]
                            node == merged[m]
                        IN  /\ node["name"] = old_node["name"]
                            /\ DOMAIN node = DOMAIN old_node \cup DOMAIN new_node
                            /\ \A f \in DOMAIN old_node \ DOMAIN new_node :
                                  node[f] = old_node[f]
                            /\ \A f \in DOMAIN new_node \ DOMAIN old_node :
                                  node[f] = new_node[f]
                            /\ \A f \in DOMAIN new_node \cap DOMAIN old_node :
                                  node[f] = IF f \in StringFields THEN new_node[f]
                                            ELSE merge_data(old_node[f], new_node[f])

\* the keys of the records of a batch from one position to another
KeysOfRecords(new_modules, from, to) ==
    {create_module_key(new_modules[i]) : i \in from..to}

\* C21: when the store fails while populate_modules handles its k-th
\* record, the merged results of the records 1..k-1 stay stored, and the
\* keys of the records from k on that no earlier record of the batch wrote
\* hold what they held.
C21_PartialBatchStays ==
    (op = "populate_modules" /\ fault.kind = "raises") =>
        /\ result.error # "none"
        /\ modulesDB = PopulateAll(prev, SubSeq(arg, 1, fault.step - 1))
        /\ \A key \in KeysOfRecords(arg, fault.step, Len(arg))
                       \ KeysOfRecords(arg, 1, fault.step - 1) :
              SameUnder(key, prev, modulesDB)

\* the store failed at the second record, the first one is stored, and the
\* key of the second holds nothing
C21_Witness ==
    /\ op = "populate_modules"
    /\ fault = [step |-> 2, kind |-> "raises"]
    /\ create_module_key(arg[1]) \notin DOMAIN prev
    /\ create_module_key(arg[1]) \in DOMAIN modulesDB
    /\ create_module_key(arg[2]) \notin DOMAIN modulesDB

\* C22: whenever a store write of populate_modules does not succeed (the
\* SET raises or reports an unsuccessful result), populate_modules reports
\* the failure to its caller and does not return normally.
C22_WriteFailureSurfaced ==
    (op = "populate_modules" /\ fault # NoFault) => result.error # "none"

\* q and p are two calls of populate_modules for one key that read the
\* same value of it, q's SET landed first and p's SET landed last of all
ReadSameAndBothSet(q, p) ==
    /\ p # q
    /\ inflight[p].call = "populate_modules" /\ inflight[p].pc = "done"
    /\ inflight[q].call = "populate_modules" /\ inflight[q].pc = "done"
    /\ create_module_key(inflight[p].new_module) = create_module_key(inflight[q].new_module)
    /\ inflight[p].redis_module = inflight[q].redis_module
    /\ inflight[q].landed < inflight[p].landed
    /\ inflight[p].landed = Landed

\* the fields that only q's record contributes: neither the value read
\* nor p's record has them
ContributedOnlyBy(q, p) ==
    DOMAIN inflight[q].new_module
        \ (DOMAIN inflight[p].new_module \cup DOMAIN inflight[p].redis_module)

\* C24: get, merge and set of populate_modules are separate store steps
\* with no lock: when two concurrent calls for one key read the same
\* pre-update value, the record stored after both lacks the fields
\* contributed by the call whose SET landed first.
C24_FirstWriterLost ==
    \A q, p \in Processes :
        ReadSameAndBothSet(q, p) =>
            LET stored == modulesDB[create_module_key(inflight[p].new_module)]
            IN  \A field \in ContributedOnlyBy(q, p) : field \notin DOMAIN stored

\* both calls read a stored record, and a field of the first to land is
\* missing from the record stored in the end
C24_Witness ==
    \E q, p \in Processes :
        /\ ReadSameAndBothSet(q, p)
        /\ DOMAIN inflight[p].redis_module # {}
        /\ ContributedOnlyBy(q, p) # {}
        /\ ContributedOnlyBy(p, q) # {}
        /\ ContributedOnlyBy(p, q)
              \subseteq DOMAIN modulesDB[create_module_key(inflight[p].new_module)]

\* the calls of reload_modules_cache that have started, and whether all
\* concurrent calls are such calls and have finished
Rebuilds == {p \in Processes : inflight[p].call = "reload_modules_cache"}
RebuildsDone == \A p \in Processes : p \in Rebuilds /\ inflight[p].pc = "done"

\* 'modules-data' holds what it held when some rebuild started
PreviousAggregate ==
    \E p \in Rebuilds : SameUnder(ModulesDataKey, inflight[p].before, modulesDB)

\* 'modules-data' holds the mapping of the records under the given keys
AggregateOf(keys) ==
    /\ ModulesDataKey \in DOMAIN modulesDB
    /\ DOMAIN modulesDB[ModulesDataKey] = keys
    /\ \A k \in keys : modulesDB[ModulesDataKey][k] = modulesDB[k]

ModuleKeysOf(data_list) == {create_module_key(data_list[i]) : i \in 1..Len(data_list)}

\* the last entry of a list with a module key, and the position at which
\* the key comes first in it
LastOfKey(data_list, key) ==
    data_list[Max({i \in 1..Len(data_list) : create_module_key(data_list[i]) = key})]

FirstAt(data_list, key) ==
    Min({i \in 1..Len(data_list) : create_module_key(data_list[i]) = key})

\* C31: merge_data of two {'module': [...]} lists leaves in old one entry
\* per module key of either list; a key of the new list holds the new entry
\* (the last one of that key), at the position the key had in the old list
\* or appended after the old keys in the order of the new list; a key of
\* the old list only holds its old entry.
C31_LeafMergeLastWins ==
    op = "merge_data" =>
        LET old_list == arg[1]["module"]
            new_list == arg[2]["module"]
            merged == result.value["module"]
            both == old_list \o new_list
        IN  /\ DOMAIN result.value = {"module"}
            /\ \A i, j \in 1..Len(merged) :
                  create_module_key(merged[i]) = create_module_key(merged[j]) => i = j
            /\ ModuleKeysOf(merged) = ModuleKeysOf(old_list) \cup ModuleKeysOf(new_list)
            /\ \A i \in 1..Len(merged) :
                  LET key == create_module_key(merged[i])
                  IN  merged[i] = IF key \in ModuleKeysOf(new_list)
                                  THEN LastOfKey(new_list, key)
                                  ELSE LastOfKey(old_list, key)
            /\ \A i, j \in 1..Len(merged) :
                  i < j => FirstAt(both, create_module_key(merged[i]))
                              < FirstAt(both, create_module_key(merged[j]))

\* a key of both lists holds the new entry at its old position, before a
\* key of the old list only
C31_Witness ==
    /\ op = "merge_data"
    /\ Len(arg[1]["module"]) = 2 /\ Len(arg[2]["module"]) = 1
    /\ create_module_key(arg[1]["module"][1]) = create_module_key(arg[2]["module"][1])
    /\ create_module_key(arg[1]["module"][2]) # create_module_key(arg[2]["module"][1])
    /\ arg[1]["module"][1] # arg[2]["module"][1]
    /\ result.value["module"] = <<arg[2]["module"][1], arg[1]["module"][2]>>

\* C32: whenever 'modules-data' is stored, the mapping under it has no
\* entry under the key 'modules-data' and none under a key with a ':' in
\* it, whatever keys the module partition holds.
C32_AggregateHasNoDerivedKeys ==
    ModulesDataKey \in DOMAIN modulesDB =>
        \A key \in DOMAIN modulesDB[ModulesDataKey] :
            key # ModulesDataKey /\ ~Contains(key, ":")

\* a rebuild over a partition that held an aggregate, a key with a ':' and
\* a key without
C32_Witness ==
    /\ op = "reload_modules_cache"
    /\ ModulesDataKey \in DOMAIN prev
    /\ \E key \in DOMAIN prev : Contains(key, ":")
    /\ DOMAIN modulesDB[ModulesDataKey] # {}

\* the keys of the vendor partition that do not split into four names
Undecodable(db) ==
    {key \in DOMAIN db \ {VendorsDataKey} : Len(Split(Replace(key, "#", " "), "/")) # 4}

\* C33: when the vendor partition holds a key other than 'vendors-data'
\* that does not decode into four '/'-separated names, reload_vendors_cache
\* ends with an error reported to its caller and the partition, the value
\* under 'vendors-data' included, is as it was before the call.
C33_DecodeFailureNotSilent ==
    (op = "reload_vendors_cache" /\ Undecodable(prev) # {}) =>
        /\ result.error = "ValueError"
        /\ SameUnder(VendorsDataKey, prev, vendorsDB)
        /\ vendorsDB = prev

\* the rebuild failed over a partition with a key that does not decode, a
\* key that does, and an aggregate stored by an earlier rebuild
C33_Witness ==
    /\ op = "reload_vendors_cache"
    /\ result.error = "ValueError"
    /\ Undecodable(prev) # {}
    /\ DOMAIN prev \ (Undecodable(prev) \cup {VendorsDataKey}) # {}
    /\ VendorsDataKey \in DOMAIN prev
    /\ prev[VendorsDataKey]["vendor"] # <<>>

\* C34: when the expansion of a block of populate_implementation fails,
\* the call ends with an error and the vendor partition is exactly as it
\* was before the call: nothing was written for the blocks, platforms and
\* flavors that had been expanded before the failure.
C34_FoldBeforeAnyWrite ==
    (op = "populate_implementation" /\ ExpandError(arg) # "none") =>
        /\ result.error # "none"
        /\ vendorsDB = prev

\* the call failed at the second platform of a block whose first platform
\* expands to a key the partition holds, with modules to merge into it
C34_Witness ==
    /\ op = "populate_implementation"
    /\ result.error = "AttributeError"
    /\ Len(arg) = 1
    /\ NameError(arg[1]) = "none"
    /\ LevelError(arg[1], "platforms", "platform") = "none"
    /\ Len(arg[1]["platforms"]["platform"]) = 2
    /\ ErrorOfPlatform(arg[1]["platforms"]["platform"][1]) = "none"
    /\ ErrorOfPlatform(arg[1]["platforms"]["platform"][2]) # "none"
    /\ DOMAIN prev # {}
    /\ vendorsDB = prev

\* the call of p has begun and has not ended; it has ended
Running(p) == inflight[p].pc \notin {"idle", "done", "failed"}
Ended(p) == inflight[p].pc \in {"done", "failed"}

\* C35: a call of populate_modules, populate_implementation,
\* reload_modules_cache or reload_vendors_cache that has begun ends, with a
\* return or with an error, whatever the batch and the partition: no loop
\* of it and no recursion of merge_data goes on forever.
C35_RunToCompletion == \A p \in Runners : Running(p) ~> Ended(p)

\* a rebuild of the vendor tree has returned after merge_data went down to
\* the software flavors of one software version
C35_Witness ==
    \E p \in Runners :
        /\ inflight[p].call = "reload_vendors_cache" /\ inflight[p].pc = "done"
        /\ \E vendor \in {inflight[p].modules_data["yang-catalog:vendor"][i] :
                             i \in 1..Len(inflight[p].modules_data["yang-catalog:vendor"])} :
              Len(vendor["platforms"]["platform"][1]["software-versions"]
                      ["software-version"][1]["software-flavors"]["software-flavor"]) = 2

\* C36: the module partition after populate_modules(r1 ++ r2) is the
\* partition after populate_modules(r1) followed by populate_modules(r2),
\* for every way of cutting the batch in two; a later record is merged
\* into what an earlier record of its key left stored.
C36_BatchEqualsSequence ==
    op = "populate_modules" =>
        \A cut \in 0..Len(arg) :
            modulesDB = PopulateAll(PopulateAll(prev, SubSeq(arg, 1, cut)),
                                    SubSeq(arg, cut + 1, Len(arg)))

\* a batch of two records of one key that the partition did not hold: the
\* field of the first is stored although the second does not have it
C36_Witness ==
    /\ op = "populate_modules"
    /\ Len(arg) = 2
    /\ create_module_key(arg[1]) = create_module_key(arg[2])
    /\ create_module_key(arg[1]) \notin DOMAIN prev
    /\ "description" \in DOMAIN arg[1]
    /\ "description" \notin DOMAIN arg[2]
    /\ "description" \in DOMAIN modulesDB[create_module_key(arg[1])]

\* delete_modules([key]) has returned and no call of populate_modules for
\* the key has begun since: some call noted the key as gone, and so did
\* every call of populate_modules for the key
DeletedAndNotPopulatedSince(key) ==
    /\ \E p \in Processes : key \in inflight[p].gone
    /\ \A q \in Processes :
          (inflight[q].call = "populate_modules"
              /\ create_module_key(inflight[q].new_module) = key)
          => key \in inflight[q].gone

\* C37: once delete_modules([k]) has returned and no call of
\* populate_modules for k begins afterwards, k is absent from the module
\* partition in every later state, also when a call of populate_modules
\* for k was between its GET and its SET at the time of the deletion.
C37_DeletedStaysDeleted ==
    \A key \in ModuleKeys :
        DeletedAndNotPopulatedSince(key) => key \notin DOMAIN modulesDB

\* C38: while only delete_modules runs next to it, every entry (k, v) of
\* the mapping a rebuild writes to 'modules-data' has for v a record that
\* was stored under k during the rebuild, that is, the record k held when
\* the scan began (nothing writes a record meanwhile); no key is mapped to
\* an empty object.
C38_NoPhantomEntries ==
    \A p \in Rebuilds :
        inflight[p].pc = "done" =>
            \A key \in DOMAIN inflight[p].modules_data :
                /\ key \in DOMAIN inflight[p].before
                /\ inflight[p].modules_data[key] = inflight[p].before[key]
                /\ inflight[p].modules_data[key] # EmptyDict

\* no module record was written or deleted since the rebuild of p began
NoWriteSince(p) ==
    \A key \in PrimitiveKeys(modulesDB) \cup PrimitiveKeys(inflight[p].before) :
        SameUnder(key, inflight[p].before, modulesDB)

\* C39: when a rebuild began after a call of populate_modules had returned
\* and no module record was written since, then once all rebuilds have
\* finished 'modules-data' holds the populated record (of a key without
\* ':'), also when another rebuild that had scanned before the populate
\* finished later.
C39_LaterRebuildNotUndone ==
    RebuildsDone =>
        \A p \in Rebuilds :
            NoWriteSince(p) =>
                \A key \in PrimitiveKeys(inflight[p].before) :
                    ~Contains(key, ":") =>
                        /\ ModulesDataKey \in DOMAIN modulesDB
                        /\ key \in DOMAIN modulesDB[ModulesDataKey]
                        /\ modulesDB[ModulesDataKey][key] = modulesDB[key]

\* the first software flavor the call has for a key
FirstFlavorOf(key) ==
    FlavorsOfCall[Min({i \in 1..Len(FlavorsOfCall) : FlavorsOfCall[i].key = key})].software_flavor

\* C40: after populate_implementation, a leaf key that held a non-empty
\* record holds the same fields with the same values but for its modules
\* list, whatever protocols the call carries for it; a leaf key that held
\* none holds the protocols of the first software flavor the call has for
\* it ({} when that flavor has none).
C40_StoredProtocolsKept ==
    (op = "populate_implementation" /\ result.error = "none") =>
        \A f \in 1..Len(FlavorsOfCall) :
            LET key == FlavorsOfCall[f].key
            IN  IF key \in DOMAIN prev /\ prev[key] # EmptyDict
                THEN /\ DOMAIN vendorsDB[key] = DOMAIN prev[key]
                     /\ \A field \in DOMAIN prev[key] \ {"modules"} :
                           vendorsDB[key][field] = prev[key][field]
                ELSE vendorsDB[key]["protocols"]
                        = GetOr(FirstFlavorOf(key), "protocols", EmptyDict)

\* the call carried other protocols for a key that held a record: the
\* stored protocols are as before and the modules list has grown
C40_Witness ==
    /\ op = "populate_implementation" /\ result.error = "none"
    /\ \E f \in 1..Len(FlavorsOfCall) :
          LET key == FlavorsOfCall[f].key
          IN  /\ key \in DOMAIN prev
              /\ GetOr(FlavorsOfCall[f].software_flavor, "protocols", EmptyDict)
                    # prev[key]["protocols"]
              /\ vendorsDB[key]["protocols"] = prev[key]["protocols"]
              /\ Len(vendorsDB[key]["modules"]["module"])
                    > Len(prev[key]["modules"]["module"])

====
